---- MODULE Spec2Model ----
(***************************************************************************)
(* TRUTH X: the analyze page (src/app/analyze/page.tsx), the API client    *)
(* (src/services/api.ts), the report dashboard                             *)
(* (src/components/ResultsDashboard.tsx) and the analysis backend the      *)
(* client calls (backend.api, started by start_backend.ps1).               *)
(***************************************************************************)
EXTENDS Integers, Sequences, FiniteSets, TLC

(***************************************************************************)
(* Bounds of the model.                                                    *)
(***************************************************************************)
\* analysis runs (clicks on Analyze that pass the guard) in one behaviour
MaxRuns == 2

\* seconds at which the dashboard module may have been loaded
MaxLoadTime == 2
MaxEmailLen == 2
\* live detection sessions (clicks on Start) in one behaviour
MaxSessions == 3
\* characters of a search text on the history page
MaxSearchLen == 2
LoadTimes == 1..MaxLoadTime

(***************************************************************************)
(* Program constants of the analyze page.                                  *)
(***************************************************************************)
UploadIncrement == 5
UploadFull == 100
ScanMessagesLength == 7
ScanIncrement == 2
ScanFull == 100
MaxUploadMB == 500
\* the live detection page keeps the newest 20 alerts
AlertLimit == 20

(***************************************************************************)
(* Input domains.  A string is a sequence of characters.                   *)
(***************************************************************************)
Tabs == {"video", "audio", "text", "image"}
Stages == {"idle", "uploading", "scanning", "results"}

NoFile == [name |-> "", modality |-> "none", sizeMB |-> 0]
ClipMp4 == [name |-> "clip.mp4", modality |-> "video", sizeMB |-> 400]
HugeMp4 == [name |-> "huge.mp4", modality |-> "video", sizeMB |-> 600]
VoiceMp3 == [name |-> "voice.mp3", modality |-> "audio", sizeMB |-> 5]
Files == { ClipMp4, HugeMp4, VoiceMp3 }

Texts == { <<>>, <<" ">>, <<"t">> }
Urls == { <<>>, <<"u">> }

\* the inputs of the specification in which the user may act while runs are
\* in progress (Spec): two tabs, one file, no text
FewTabs == {"video", "text"}
FewFiles == { ClipMp4 }
FewTexts == { <<>> }
FewUrls == { <<>> }

(***************************************************************************)
(* JavaScript values: undefined, null, numbers, strings; objects are       *)
(* records with t = "object" whose absent properties are Undef.            *)
(***************************************************************************)
Undef == [t |-> "undefined"]
Null == [t |-> "null"]
Num(n) == [t |-> "number", n |-> n]
Str(s) == [t |-> "string", s |-> s]

IsNum(v) == v.t = "number"
Nullish(v) == v = Undef \/ v = Null
\* a ?? b
Coalesce(a, b) == IF Nullish(a) THEN b ELSE a
\* !!v
JsTruthy(v) ==
  CASE v.t = "undefined" -> FALSE
    [] v.t = "null" -> FALSE
    [] v.t = "number" -> v.n # 0
    [] v.t = "string" -> v.s # ""
    [] OTHER -> TRUE


(***************************************************************************)
(* Bodies of POST /analyze (the fields the dashboard reads, lines 214-226, *)
(* 370).  confidence and the probabilities are in hundredths.              *)
(***************************************************************************)
Scores == {0, 39, 40, 44, 45, 69, 70, 74, 75, 100}

\* the tier of a score: >= 75 low, 45..74 medium, < 45 high
TierOf(score) == IF score >= 75 THEN "low" ELSE IF score >= 45 THEN "medium" ELSE "high"

\* score and risk_level as a backend that keeps them consistent sends them:
\* both, one of them, neither, or the unknown sentinel
ScoreRiskPairs ==
  { <<Undef, Undef>>, <<Null, Str("unknown")>> }
  \cup { <<Num(n), Undef>> : n \in Scores }
  \cup { <<Num(n), Str(TierOf(n))>> : n \in Scores }
  \cup { <<Undef, Str(r)>> : r \in {"low", "medium", "high"} }

VideoMLs ==
  { Undef } \cup
  { [t |-> "object", label |-> Str(l), confidence |-> Num(94), per_frame |-> Undef] :
      l \in {"fake", "real", "unknown", "uncertain"} }

TextMLs ==
  { Undef } \cup
  { [t |-> "object", label |-> Str(l), ai_probability |-> Num(85), human_probability |-> Num(15)] :
      l \in {"ai-generated", "human-written", "unknown"} }

EmptyMeta ==
  [t |-> "object", original_filename |-> Undef, file_info |-> Undef, video |-> Undef,
   audio |-> Undef, tags |-> Undef]
Metas == { Undef, EmptyMeta, [EmptyMeta EXCEPT !.original_filename = Str("clip.mp4")] }

\* a JavaScript array
Arr(items) == [t |-> "array", items |-> items]

\* drift_data: absent, an empty trace, a segment-level trace
DriftDatas ==
  { Undef, Arr(<< >>), Arr(<< [t |-> "0s", v |-> 90], [t |-> "5s", v |-> 40] >>) }

RiskAssessments ==
  { Undef, [t |-> "object", flags |-> Undef, authenticity_score |-> Num(60)] }

ApiObjects ==
  { [ t |-> "object", score |-> sr[1], risk_level |-> sr[2], video_analysis |-> v,
      text_analysis |-> x, metadata |-> m, risk_assessment |-> ra,
      drift_data |-> dd, related_articles |-> Undef, models_used |-> Undef ] :
      sr \in ScoreRiskPairs, v \in VideoMLs, x \in TextMLs, m \in Metas,
      ra \in RiskAssessments, dd \in DriftDatas }

\* metadata as the forensics of one video report it: total bitrate around the
\* 2000 kbps rule, width around 1920, GPS missing, null, empty or set
FileInfos ==
  { Undef } \cup
  { [t |-> "object", file_name |-> Undef, container_format |-> Str("mov,mp4"),
     file_size_mb |-> Num(400), duration_human |-> Undef, duration_seconds |-> Num(12),
     total_bitrate_kbps |-> b, nb_streams |-> Num(2)] :
      b \in {Undef, Num(0), Num(1999), Num(2000), Str("N/A")} }
Videos ==
  { Undef } \cup
  { [t |-> "object", codec |-> c, profile |-> Str("High"), resolution |-> Undef,
     display_aspect_ratio |-> Undef, fps |-> Num(30), avg_fps |-> Num(30),
     bitrate_kbps |-> Str("N/A"), pixel_format |-> Undef, bit_depth |-> Undef,
     color_space |-> Str("unknown"), total_frames |-> Num(1500), rotation |-> Str("0"),
     width |-> w] :
      c \in {Undef, Str("h264")}, w \in {Undef, Num(1280), Num(1920)} }
Audios ==
  { Undef,
    [t |-> "object", codec |-> Str("aac"), profile |-> Undef, sample_rate_hz |-> Num(44100),
     channels |-> Num(2), channel_layout |-> Undef, bitrate_kbps |-> Num(128),
     language |-> Str("unknown")] }
TagSets ==
  { Undef } \cup
  { [t |-> "object", camera_device |-> d, manufacturer |-> Undef, software_version |-> Undef,
     gps_location |-> g, creation_time |-> Undef, encoder |-> e, major_brand |-> Undef,
     title |-> Undef, comment |-> Undef] :
      d \in {Undef, Str("iPhone 13")},
      g \in {Undef, Null, Str(""), Str("+12.9716+077.5946/")},
      e \in {Undef, Str("Lavf58.76.100")} }
VideoMetas ==
  { [t |-> "object", original_filename |-> Str("clip.mp4"), file_info |-> fi, video |-> v,
     audio |-> a, tags |-> g] :
      fi \in FileInfos, v \in Videos, a \in Audios, g \in TagSets }

\* one flag of risk_assessment.flags, label and detail as words
Flag(label, detail) == [t |-> "object", label |-> label, detail |-> detail]
GpsFlag == Flag(<< "No", "GPS", "Data" >>, << "Location", "metadata", "is", "missing" >>)
DeepfakeFlag == Flag(<< "Deepfake", "Model" >>, << "Video", "classified", "as", "fake" >>)
FlagLists ==
  { Undef, Arr(<< >>), Arr(<< GpsFlag >>), Arr(<< DeepfakeFlag >>),
    Arr(<< DeepfakeFlag, GpsFlag >>) }

\* results of the analysis of one video with its metadata
MetaResults ==
  { [ t |-> "object", score |-> sc, risk_level |-> Str("high"), video_analysis |-> v,
      text_analysis |-> Undef, metadata |-> m,
      risk_assessment |-> [t |-> "object", flags |-> fl, authenticity_score |-> Num(15)],
      drift_data |-> Undef, related_articles |-> Undef, models_used |-> Str("real") ] :
      sc \in {Undef, Num(15)}, m \in VideoMetas, fl \in FlagLists,
      v \in { Undef,
              [t |-> "object", label |-> Str("fake"), confidence |-> Num(94), per_frame |-> Undef],
              [t |-> "object", label |-> Str("real"), confidence |-> Num(94), per_frame |-> Undef] } }

\* results with and without real data, ML labels and risk flags
FlaggedResults ==
  { Null } \cup
  { [ t |-> "object", score |-> sc, risk_level |-> Undef, video_analysis |-> v,
      text_analysis |-> x, metadata |-> Undef, risk_assessment |-> ra,
      drift_data |-> Undef, related_articles |-> Undef, models_used |-> Undef ] :
      sc \in {Undef, Num(15)},
      v \in { Undef,
              [t |-> "object", label |-> Str("fake"), confidence |-> Num(94), per_frame |-> Undef],
              [t |-> "object", label |-> Str("real"), confidence |-> Num(94), per_frame |-> Undef] },
      x \in { Undef,
              [t |-> "object", label |-> Str("ai-generated"), ai_probability |-> Num(85),
               human_probability |-> Num(15)],
              [t |-> "object", label |-> Str("human-written"), ai_probability |-> Num(15),
               human_probability |-> Num(85)] },
      ra \in { Undef } \cup
             { [t |-> "object", flags |-> fl, authenticity_score |-> Undef] : fl \in FlagLists } }

\* a body may also be the JSON value null
ApiResults == { Null } \cup ApiObjects

\* the body the page specifications answer with
PageBodies ==
  { [ t |-> "object", score |-> Num(18), risk_level |-> Str("high"),
      video_analysis |-> [t |-> "object", label |-> Str("fake"), confidence |-> Num(94),
                          per_frame |-> Undef],
      text_analysis |-> Undef, metadata |-> Undef, risk_assessment |-> Undef,
      drift_data |-> Undef, related_articles |-> Undef, models_used |-> Undef ] }

VARIABLES
  activeTab, stage, dragOver, uploadedFile, textInput, urlInput,
  scanStep, scanProgress, uploadProgress, apiResult,
  runs

pageVars == << activeTab, stage, dragOver, uploadedFile, textInput, urlInput,
               scanStep, scanProgress, uploadProgress, apiResult,
               runs >>

\* what ResultsDashboard has rendered
VARIABLE shown

\* the analysis service behind POST /analyze (backend.api, started by
\* start_backend.ps1): the Ephemeral Content Store, the next content token
\* and the requests it has received
VARIABLES store, nextId, requests

coreVars == << store, nextId, requests >>

\* the time, in seconds, at which the module ResultsDashboard.tsx was
\* evaluated (its constant mockResults reads the clock, line 194)
VARIABLE loadedAt

\* history: reset has run and analyzeFile has not started a run since
VARIABLE discarded

\* context/AuthContext.tsx: the user state of AuthProvider, the browser's
\* localStorage (key -> string), whether the mount effect of the current
\* mount has run, and the route the router is at
VARIABLES user, localStorage, effectRan, pathname
\* history: the user of the last login or signup, null after a logout
VARIABLE lastAuth
authVars == << user, localStorage, effectRan, pathname, lastAuth >>


\* the live detection page: the state of LiveDetectionPage (lines 50-59),
\* the counter alertIdRef.current, and the timers of the alert sequence
\* effect that are set and neither fired nor cleared (their index i)
VARIABLES callActive, status, alerts, showAlert, alertDismissed, alertIdRef, timeouts
\* the value of callActive the alert sequence effect last ran with
VARIABLE effectFor
\* history: the number of startCall clicks so far
VARIABLE sessions
liveVars == << callActive, status, alerts, showAlert, alertDismissed, alertIdRef,
              timeouts, effectFor, sessions >>

\* the history page: the state of HistoryPage (part_003 lines 176-178), the
\* search text as a sequence of characters
VARIABLES search, filterStatus, sortBy
historyVars == << search, filterStatus, sortBy >>

sideVars == << authVars, liveVars, historyVars >>

vars == << pageVars, shown, coreVars, loadedAt, discarded, sideVars >>

(***************************************************************************)
(* String helpers: String.prototype.trim and JS truthiness of a string.    *)
(***************************************************************************)
IsSpace(c) == c = " "

RECURSIVE TrimStart(_)
TrimStart(s) ==
  IF s = <<>> THEN <<>>
  ELSE IF IsSpace(Head(s)) THEN TrimStart(Tail(s)) ELSE s

RECURSIVE TrimEnd(_)
TrimEnd(s) ==
  IF s = <<>> THEN <<>>
  ELSE IF IsSpace(s[Len(s)]) THEN TrimEnd(SubSeq(s, 1, Len(s) - 1)) ELSE s

Trim(s) == TrimEnd(TrimStart(s))

\* JS truthiness of a string: non-empty
NonEmpty(s) == s # <<>>

HasFile(f) == f # NoFile

(***************************************************************************)
(* services/api.ts analyzeContent: the multipart form it builds.           *)
(***************************************************************************)
FormData(file, text) ==
  (IF HasFile(file) THEN << [field |-> "video", file |-> file, text |-> <<>>] >> ELSE <<>>)
  \o
  (IF NonEmpty(text) THEN << [field |-> "query", file |-> NoFile, text |-> text] >> ELSE <<>>)

\* how POST /analyze can settle: fetch rejects, a status that is not OK, an OK
\* status with a body that is not JSON, an OK status with a JSON body
Responses(bodies) ==
  { [kind |-> k, body |-> Null] : k \in {"rejected", "not_ok", "bad_json"} }
  \cup { [kind |-> "ok", body |-> b] : b \in bodies }

\* analyzeContent without the response.ok test of api.ts lines 32-35
AnalyzeContentThrows_NoStatusTest(resp) == resp.kind \in {"rejected", "bad_json"}

\* api.ts lines 26-41: fetch rejected, !response.ok, or response.json() rejected
AnalyzeContentThrows(resp) == resp.kind \in {"rejected", "not_ok", "bad_json"}

\* page.tsx line 109: const query = textInput || urlInput
Query(text, url) == IF NonEmpty(text) THEN text ELSE url

HasField(form, name) == \E i \in 1..Len(form) : form[i].field = name

(***************************************************************************)
(* services/api.ts, checkBackendHealth (lines 3-10).  The outcome of       *)
(* fetch(API_URL/health) is a response with a status, or a rejection       *)
(* (connection refused, DNS failure, CORS).                                *)
(***************************************************************************)
Rejected == [t |-> "rejected"]
Response(code) == [t |-> "response", status |-> code]
Probes == {Response(200), Response(503), Rejected}

\* Response.ok of the Fetch standard: the status is in the range 200-299
ResOk(res) == res.status >= 200 /\ res.status <= 299

Returned(v) == [threw |-> FALSE, value |-> v]
Thrown == [threw |-> TRUE, value |-> Undef]

\* checkBackendHealth without the try/catch: a rejected fetch rejects the call
checkBackendHealth_NoCatch(probe) ==
  IF probe = Rejected THEN Thrown ELSE Returned(ResOk(probe))

checkBackendHealth(probe) ==
  IF probe = Rejected THEN Returned(FALSE) ELSE Returned(ResOk(probe))

(***************************************************************************)
(* One analysis run: the closure of analyzeFile / startRealAnalysis made   *)
(* by one click, with the values of the render it was made in.             *)
(***************************************************************************)
NewRun(tab, file, text, url) ==
  [ pc |-> "health", tab |-> tab, file |-> file, text |-> text, url |-> url,
    progress |-> 0, step |-> 0, ticking |-> FALSE,
    health |-> "pending", probe |-> Undef, form |-> <<>>, resp |-> "none" ]

\* a run that has ended: its closure is dead, only its outcome is kept
Ended(run, outcome) ==
  [ run EXCEPT !.pc = outcome, !.file = NoFile, !.text = <<>>, !.url = <<>>,
               !.form = <<>> ]

RunIds == 1..Len(runs)
InProgress(r) == runs[r].pc \in {"health", "upload", "scan", "timeout", "post"}

\* the guard of analyzeFile (line 69) and of the Analyze button (line 374)
NothingToAnalyze(file, text, url) ==
  ~HasFile(file) /\ ~NonEmpty(Trim(text)) /\ ~NonEmpty(Trim(url))

\* the page body (inputs, tabs, Analyze button) is rendered unless stage = results
PageShown == stage # "results"
HasDropZone(tab) == tab \in {"video", "audio", "image"}

PageInit ==
  /\ activeTab = "video"
  /\ stage = "idle"
  /\ dragOver = FALSE
  /\ uploadedFile = NoFile
  /\ textInput = <<>>
  /\ urlInput = <<>>
  /\ scanStep = 0
  /\ scanProgress = 0
  /\ uploadProgress = 0
  /\ apiResult = Null
  /\ runs = <<>>

(***************************************************************************)
(* User actions on the page.                                               *)
(***************************************************************************)
SwitchTab(t) ==
  /\ PageShown
  /\ activeTab' = t
  /\ uploadedFile' = NoFile
  /\ UNCHANGED << dragOver, stage, textInput, urlInput, scanStep, scanProgress,
                  uploadProgress, apiResult, runs >>
  /\ UNCHANGED << shown, coreVars, loadedAt, discarded, sideVars >>

\* onDragOver / onDragLeave of the drop zone (lines 251-252)
DragOver ==
  /\ PageShown
  /\ HasDropZone(activeTab)
  /\ dragOver' = TRUE
  /\ UNCHANGED << activeTab, stage, uploadedFile, textInput, urlInput, scanStep,
                  scanProgress, uploadProgress, apiResult, runs >>
  /\ UNCHANGED << shown, coreVars, loadedAt, discarded, sideVars >>

DragLeave ==
  /\ PageShown
  /\ HasDropZone(activeTab)
  /\ dragOver' = FALSE
  /\ UNCHANGED << activeTab, stage, uploadedFile, textInput, urlInput, scanStep,
                  scanProgress, uploadProgress, apiResult, runs >>
  /\ UNCHANGED << shown, coreVars, loadedAt, discarded, sideVars >>

\* handleDrop (lines 56-61): any dropped file is staged
HandleDrop(f) ==
  /\ PageShown
  /\ HasDropZone(activeTab)
  /\ dragOver' = FALSE
  /\ uploadedFile' = f
  /\ UNCHANGED << activeTab, stage, textInput, urlInput, scanStep, scanProgress,
                  uploadProgress, apiResult, runs >>
  /\ UNCHANGED << shown, coreVars, loadedAt, discarded, sideVars >>

\* handleFileChange (lines 63-66); the picker opens only while no file is staged
\* (line 254)
HandleFileChange(f) ==
  /\ PageShown
  /\ HasDropZone(activeTab)
  /\ ~HasFile(uploadedFile)
  /\ uploadedFile' = f
  /\ UNCHANGED << dragOver, activeTab, stage, textInput, urlInput, scanStep, scanProgress,
                  uploadProgress, apiResult, runs >>
  /\ UNCHANGED << shown, coreVars, loadedAt, discarded, sideVars >>

RemoveFile ==
  /\ PageShown
  /\ HasDropZone(activeTab)
  /\ HasFile(uploadedFile)
  /\ uploadedFile' = NoFile
  /\ UNCHANGED << dragOver, activeTab, stage, textInput, urlInput, scanStep, scanProgress,
                  uploadProgress, apiResult, runs >>
  /\ UNCHANGED << shown, coreVars, loadedAt, discarded, sideVars >>

SetTextInput(s) ==
  /\ PageShown
  /\ activeTab = "text"
  /\ textInput' = s
  /\ UNCHANGED << dragOver, activeTab, stage, uploadedFile, urlInput, scanStep, scanProgress,
                  uploadProgress, apiResult, runs >>
  /\ UNCHANGED << shown, coreVars, loadedAt, discarded, sideVars >>

SetUrlInput(u) ==
  /\ PageShown
  /\ urlInput' = u
  /\ UNCHANGED << dragOver, activeTab, stage, uploadedFile, textInput, scanStep, scanProgress,
                  uploadProgress, apiResult, runs >>
  /\ UNCHANGED << shown, coreVars, loadedAt, discarded, sideVars >>

(***************************************************************************)
(* analyzeFile, up to the await of checkBackendHealth.                     *)
(***************************************************************************)
AnalyzeFile ==
  /\ PageShown
  /\ Len(runs) < MaxRuns
  /\ ~NothingToAnalyze(uploadedFile, textInput, urlInput)
  /\ stage' = "uploading"
  /\ uploadProgress' = 0
  /\ runs' = Append(runs, NewRun(activeTab, uploadedFile, textInput, urlInput))
  /\ discarded' = FALSE
  /\ UNCHANGED << dragOver, activeTab, uploadedFile, textInput, urlInput, scanStep,
                  scanProgress, apiResult >>
  /\ UNCHANGED << shown, coreVars, loadedAt, sideVars >>

\* checkBackendHealth resolved true: the upload-progress interval is started
HealthUp(r, probe) ==
  /\ r \in RunIds
  /\ runs[r].pc = "health"
  /\ checkBackendHealth(probe) = Returned(TRUE)
  /\ runs' = [runs EXCEPT ![r].pc = "upload", ![r].health = "up", ![r].probe = probe,
                          ![r].progress = 0]
  /\ UNCHANGED << dragOver, activeTab, stage, uploadedFile, textInput, urlInput, scanStep,
                  scanProgress, uploadProgress, apiResult >>
  /\ UNCHANGED << shown, coreVars, loadedAt, discarded, sideVars >>

\* analyzeFile without the return of page.tsx line 79: the alert is shown and
\* the upload-progress interval is started all the same
HealthDown_NoReturn(r, probe) ==
  /\ r \in RunIds
  /\ runs[r].pc = "health"
  /\ checkBackendHealth(probe) = Returned(FALSE)
  /\ stage' = "idle"
  /\ runs' = [runs EXCEPT ![r].pc = "upload", ![r].health = "down", ![r].probe = probe,
                          ![r].progress = 0]
  /\ UNCHANGED << dragOver, activeTab, uploadedFile, textInput, urlInput, scanStep,
                  scanProgress, uploadProgress, apiResult >>
  /\ UNCHANGED << shown, coreVars, loadedAt, discarded, sideVars >>

\* checkBackendHealth resolved false (non-OK status or fetch rejected)
HealthDown(r, probe) ==
  /\ r \in RunIds
  /\ runs[r].pc = "health"
  /\ checkBackendHealth(probe) = Returned(FALSE)
  /\ stage' = "idle"
  /\ runs' = [runs EXCEPT ![r] = Ended([runs[r] EXCEPT !.health = "down", !.probe = probe],
                                       "aborted")]
  /\ UNCHANGED << dragOver, activeTab, uploadedFile, textInput, urlInput, scanStep,
                  scanProgress, uploadProgress, apiResult >>
  /\ UNCHANGED << shown, coreVars, loadedAt, discarded, sideVars >>

\* one firing of the upload-progress interval (lines 84-92); at 100 it clears
\* itself, sets stage scanning and calls startRealAnalysis (lines 96-97, 100, 123)
UploadTick(r) ==
  /\ r \in RunIds
  /\ runs[r].pc = "upload"
  /\ LET p == runs[r].progress + UploadIncrement IN
       /\ uploadProgress' = p
       /\ IF p >= UploadFull
          THEN /\ stage' = "scanning"
               /\ scanProgress' = 0
               /\ scanStep' = 0
               /\ runs' = [runs EXCEPT ![r].pc = "scan", ![r].progress = p,
                                       ![r].step = 0, ![r].ticking = TRUE]
          ELSE /\ runs' = [runs EXCEPT ![r].progress = p]
               /\ UNCHANGED << stage, scanProgress, scanStep >>
  /\ UNCHANGED << dragOver, activeTab, uploadedFile, textInput, urlInput, apiResult >>
  /\ UNCHANGED << shown, coreVars, loadedAt, discarded, sideVars >>

\* one firing of stepInterval (lines 100-104)
StepTick(r) ==
  /\ r \in RunIds
  /\ runs[r].pc = "scan"
  /\ LET s == runs[r].step + 1 IN
       /\ scanStep' = s
       /\ runs' = [runs EXCEPT ![r].step = s,
                               ![r].pc = IF s >= ScanMessagesLength THEN "timeout" ELSE "scan"]
  /\ UNCHANGED << dragOver, activeTab, stage, uploadedFile, textInput, urlInput, scanProgress,
                  uploadProgress, apiResult >>
  /\ UNCHANGED << shown, coreVars, loadedAt, discarded, sideVars >>

\* progressInterval without the clearInterval of line 125
ProgressTick_NeverCleared(r) ==
  /\ r \in RunIds
  /\ runs[r].ticking
  /\ scanProgress' = IF scanProgress >= ScanFull THEN ScanFull ELSE scanProgress + ScanIncrement
  /\ UNCHANGED << runs, dragOver, activeTab, stage, uploadedFile, textInput, urlInput, scanStep,
                  uploadProgress, apiResult >>
  /\ UNCHANGED << shown, coreVars, loadedAt, discarded, sideVars >>

\* one firing of progressInterval (lines 123-128)
ProgressTick(r) ==
  /\ r \in RunIds
  /\ runs[r].ticking
  /\ IF scanProgress >= ScanFull
     THEN /\ scanProgress' = ScanFull
          /\ runs' = [runs EXCEPT ![r].ticking = FALSE]
     ELSE /\ scanProgress' = scanProgress + ScanIncrement
          /\ UNCHANGED runs
  /\ UNCHANGED << dragOver, activeTab, stage, uploadedFile, textInput, urlInput, scanStep,
                  uploadProgress, apiResult >>
  /\ UNCHANGED << shown, coreVars, loadedAt, discarded, sideVars >>

\* the 600 ms timeout fires (lines 106-110): the query is chosen, analyzeContent
\* builds the form and issues POST /analyze
SendAnalyze(r) ==
  /\ r \in RunIds
  /\ runs[r].pc = "timeout"
  /\ runs' = [runs EXCEPT ![r].pc = "post",
                          ![r].form = FormData(runs[r].file, Query(runs[r].text, runs[r].url))]
  /\ UNCHANGED << dragOver, activeTab, stage, uploadedFile, textInput, urlInput, scanStep,
                  scanProgress, uploadProgress, apiResult >>
  /\ UNCHANGED << shown, coreVars, loadedAt, discarded, sideVars >>

\* AnalyzeSettled without the setStage("idle") of line 117
AnalyzeSettled_StageKept(r, resp) ==
  /\ r \in RunIds
  /\ runs[r].pc = "post"
  /\ IF AnalyzeContentThrows(resp)
     THEN /\ runs' = [runs EXCEPT ![r] = Ended([runs[r] EXCEPT !.resp = resp.kind], "failed")]
          /\ UNCHANGED << stage, apiResult >>
     ELSE /\ apiResult' = resp.body
          /\ stage' = "results"
          /\ runs' = [runs EXCEPT ![r] = Ended([runs[r] EXCEPT !.resp = resp.kind], "succeeded")]
  /\ UNCHANGED << dragOver, activeTab, uploadedFile, textInput, urlInput, scanStep,
                  scanProgress, uploadProgress >>
  /\ UNCHANGED << shown, coreVars, loadedAt, discarded, sideVars >>

\* POST /analyze settles with resp (api.ts lines 26-41, page.tsx lines 110-118):
\* analyzeContent returns the body or throws
AnalyzeSettled(r, resp) ==
  /\ r \in RunIds
  /\ runs[r].pc = "post"
  /\ IF AnalyzeContentThrows(resp)
     THEN /\ stage' = "idle"
          /\ runs' = [runs EXCEPT ![r] = Ended([runs[r] EXCEPT !.resp = resp.kind], "failed")]
          /\ UNCHANGED apiResult
     ELSE /\ apiResult' = resp.body
          /\ stage' = "results"
          /\ runs' = [runs EXCEPT ![r] = Ended([runs[r] EXCEPT !.resp = resp.kind], "succeeded")]
  /\ UNCHANGED << dragOver, activeTab, uploadedFile, textInput, urlInput, scanStep,
                  scanProgress, uploadProgress >>
  /\ UNCHANGED << shown, coreVars, loadedAt, discarded, sideVars >>

\* reset (lines 131-139), the dashboard's New Analysis button
ResetState ==
  /\ stage = "results"
  /\ stage' = "idle"
  /\ apiResult' = Null
  /\ uploadedFile' = NoFile
  /\ textInput' = <<>>
  /\ urlInput' = <<>>
  /\ scanProgress' = 0
  /\ scanStep' = 0
  /\ discarded' = TRUE
  /\ UNCHANGED << dragOver, activeTab, uploadProgress, runs >>

Reset ==
  /\ ResetState
  /\ UNCHANGED << shown, coreVars, loadedAt, sideVars >>

(***************************************************************************)
(* components/ResultsDashboard.tsx: the report shown for an API result.    *)
(***************************************************************************)
\* mockResults[tab].driftData (lines 77-80, 114-117, 151-154, 185-188)
Drift(ts, vs) == [i \in 1..Len(ts) |-> [t |-> ts[i], v |-> vs[i]]]
MockDriftData(tab) ==
  CASE tab = "video" -> Drift(<<"0s", "5s", "10s", "15s", "20s", "25s", "30s", "35s">>,
                              <<82, 78, 71, 34, 22, 19, 16, 18>>)
    [] tab = "audio" -> Drift(<<"0s", "3s", "6s", "9s", "12s", "15s", "18s", "21s">>,
                              <<70, 65, 50, 35, 28, 32, 29, 31>>)
    [] tab = "text" -> Drift(<<"P1", "P2", "P3", "P4", "P5", "P6", "P7">>,
                             <<85, 72, 80, 55, 75, 60, 70>>)
    [] tab = "image" -> Drift(<<"R1", "R2", "R3", "R4", "R5", "R6">>,
                              <<92, 90, 93, 91, 94, 89>>)

\* mockResults (lines 41-198): score, status, risk and confidence of each tab
MockResults(tab) ==
  CASE tab = "video" -> [score |-> 18, status |-> "AI-Generated", risk |-> "high", confidence |-> 94]
    [] tab = "audio" -> [score |-> 31, status |-> "Synthetic Voice", risk |-> "high", confidence |-> 91]
    [] tab = "text" -> [score |-> 72, status |-> "Partially AI-Generated", risk |-> "medium", confidence |-> 83]
    [] tab = "image" -> [score |-> 91, status |-> "Authentic", risk |-> "low", confidence |-> 97]

\* apiResult?.field
Opt(api, field) == IF Nullish(api) THEN Undef ELSE api[field]

\* Object.keys(apiResult.metadata).length
MetadataKeys(meta) ==
  Cardinality({k \in {"original_filename", "file_info", "video", "audio", "tags"} :
                 meta[k] # Undef})

\* lines 220-222
HasMetadata(api) ==
  JsTruthy(Opt(api, "metadata")) /\ MetadataKeys(api.metadata) > 0
HasML(api) == JsTruthy(Opt(api, "video_analysis")) \/ JsTruthy(Opt(api, "text_analysis"))
HasRealData(api) == HasMetadata(api) \/ HasML(api) \/ Opt(api, "score") # Undef

\* lines 224-226
RealRisk(api) ==
  IF JsTruthy(Opt(api, "risk_assessment")) THEN api.risk_assessment
  ELSE [t |-> "object", flags |-> Undef, authenticity_score |-> Undef]
RealScore(api) == Coalesce(Opt(api, "score"), Null)
RealRiskLevel(api) == Coalesce(Opt(api, "risk_level"), Null)

(***************************************************************************)
(* buildFingerprint (lines 230-290).                                       *)
(***************************************************************************)
\* a || b
Or(a, b) == IF JsTruthy(a) THEN a ELSE b

\* ${v} in a template literal
Tpl(v) ==
  CASE v.t = "number" -> ToString(v.n)
    [] v.t = "string" -> v.s
    [] v.t = "null" -> "null"
    [] OTHER -> "undefined"

\* Number.prototype.toLocaleString(): digits grouped in thousands
Grouped(n) ==
  IF n < 1000 THEN ToString(n)
  ELSE LET low == n % 1000
       IN  ToString(n \div 1000) \o ","
           \o (IF low < 10 THEN "00" ELSE IF low < 100 THEN "0" ELSE "") \o ToString(low)

\* the sub-objects of metadata with every field absent ({})
NoFileInfo ==
  [t |-> "object", file_name |-> Undef, container_format |-> Undef, file_size_mb |-> Undef,
   duration_human |-> Undef, duration_seconds |-> Undef, total_bitrate_kbps |-> Undef,
   nb_streams |-> Undef]
NoVideo ==
  [t |-> "object", codec |-> Undef, profile |-> Undef, resolution |-> Undef,
   display_aspect_ratio |-> Undef, fps |-> Undef, avg_fps |-> Undef, bitrate_kbps |-> Undef,
   pixel_format |-> Undef, bit_depth |-> Undef, color_space |-> Undef, total_frames |-> Undef,
   rotation |-> Undef, width |-> Undef]
NoAudio ==
  [t |-> "object", codec |-> Undef, profile |-> Undef, sample_rate_hz |-> Undef,
   channels |-> Undef, channel_layout |-> Undef, bitrate_kbps |-> Undef, language |-> Undef]
NoTags ==
  [t |-> "object", camera_device |-> Undef, manufacturer |-> Undef,
   software_version |-> Undef, gps_location |-> Undef, creation_time |-> Undef,
   encoder |-> Undef, major_brand |-> Undef, title |-> Undef, comment |-> Undef]

\* buildFingerprint pushing every entry with suspicious: false
Entry_NeverSuspicious(label, value, suspicious, section) ==
  [label |-> label, value |-> value, suspicious |-> FALSE, section |-> section]

\* one entry of the fingerprint; value is a string or undefined
Entry(label, value, suspicious, section) ==
  [label |-> label, value |-> value, suspicious |-> suspicious, section |-> section]
\* the entry pushed when cond is truthy
When(cond, entry) == IF JsTruthy(cond) THEN << entry >> ELSE << >>

\* new Date().toLocaleString("en-IN", ...) of a time within one minute
DateString(at) ==
  "12/1/2026, 3:42:" \o (IF at < 10 THEN "0" ELSE "") \o ToString(at) \o " am"

\* mockResults[tab].fingerprint (lines 81-88, 118-125, 155-162, 189-196) as
\* evaluated at time at
MockFingerprint(tab, at) ==
  LET Mock(label, value, suspicious) == Entry(label, Str(value), suspicious, "")
  IN CASE tab = "video" ->
          << Mock("File Hash (SHA-256)", "a1f4...d892", FALSE),
             Mock("Creation Date", "2026-01-12 03:42 UTC", TRUE),
             Mock("GPS Metadata", "Stripped - suspicious", TRUE),
             Mock("Software Tag", "FaceSwap v2.3.1", TRUE),
             Mock("Resolution", "1920x1080 (upscaled)", TRUE),
             Mock("Codec", "H.264 - re-encoded", FALSE) >>
       [] tab = "audio" ->
          << Mock("Audio Hash", "c8b2...f441", FALSE),
             Mock("Sample Rate", "22050 Hz (TTS default)", TRUE),
             Mock("Bit Depth", "16-bit PCM", FALSE),
             Mock("Voice Model Match", "ElevenLabs - 91% match", TRUE),
             Mock("Duration", "42.3 seconds", FALSE),
             Mock("Background Noise", "Artificially added", TRUE) >>
       [] tab = "text" ->
          << Mock("Word Count", "1,240 words", FALSE),
             Mock("Burstiness Score", "0.12 (below 0.4 threshold)", TRUE),
             Mock("Author", "Unknown / No byline", TRUE),
             Mock("Publication Date", "3 days in future", TRUE),
             Mock("Domain Age", "Created 4 weeks ago", TRUE),
             Mock("Citations", "2/6 verifiable", TRUE) >>
       [] tab = "image" ->
          << Mock("File Hash (SHA-256)", "9e7c...a201", FALSE),
             Mock("Device", "Canon EOS R5", FALSE),
             Mock("GPS Location", "Present & consistent", FALSE),
             Mock("Software", "Adobe Lightroom (minor edit)", FALSE),
             Mock("Timestamp", DateString(at), FALSE),
             Mock("Resolution", "8192x5464 (original)", FALSE) >>

\* buildFingerprint (lines 230-290), the module having been loaded at time at
BuildFingerprint(tab, api, at) ==
  LET realMeta == IF JsTruthy(Opt(api, "metadata")) THEN api.metadata ELSE EmptyMeta
      fi == Or(realMeta.file_info, NoFileInfo)
      vid == Or(realMeta.video, NoVideo)
      aud == Or(realMeta.audio, NoAudio)
      tags == Or(realMeta.tags, NoTags)
      Plain(label, value, section) == Entry(label, value, FALSE, section)
      lowBitrate == /\ IsNum(fi.total_bitrate_kbps)
                    /\ fi.total_bitrate_kbps.n > 0
                    /\ fi.total_bitrate_kbps.n < 2000
                    /\ IsNum(Or(vid.width, Num(0)))
                    /\ Or(vid.width, Num(0)).n >= 1920
      file ==
        << Plain("File Name", Or(Or(realMeta.original_filename, fi.file_name), Str("Unknown")), "File"),
           Plain("Container Format", Or(fi.container_format, Str("Unknown")), "File"),
           Plain("File Size", IF JsTruthy(fi.file_size_mb)
                              THEN Str(Tpl(fi.file_size_mb) \o " MB") ELSE Str("N/A"), "File"),
           Plain("Duration", Or(fi.duration_human,
                                Str(Tpl(Or(fi.duration_seconds, Num(0))) \o "s")), "File"),
           Entry("Total Bitrate", IF JsTruthy(fi.total_bitrate_kbps)
                                  THEN Str(Tpl(fi.total_bitrate_kbps) \o " kbps") ELSE Str("N/A"),
                 lowBitrate, "File"),
           Plain("Streams", Str(Tpl(Or(fi.nb_streams, Num(0)))), "File") >>
      video ==
        IF ~JsTruthy(vid.codec) THEN << >>
        ELSE
        << Plain("Video Codec",
                 Str(Tpl(vid.codec) \o
                     (IF JsTruthy(vid.profile) /\ vid.profile # Str("unknown")
                      THEN " (" \o Tpl(vid.profile) \o ")" ELSE "")), "Video"),
           Plain("Resolution", Or(vid.resolution, Str("N/A")), "Video"),
           Plain("Aspect Ratio", Or(vid.display_aspect_ratio, Str("N/A")), "Video"),
           Plain("Frame Rate",
                 Str(Tpl(Or(vid.fps, Str("N/A"))) \o " fps" \o
                     (IF JsTruthy(vid.avg_fps) /\ vid.avg_fps # vid.fps
                      THEN " (avg: " \o Tpl(vid.avg_fps) \o ")" ELSE "")), "Video"),
           Plain("Video Bitrate", IF vid.bitrate_kbps # Str("N/A")
                                  THEN Str(Tpl(vid.bitrate_kbps) \o " kbps") ELSE Str("N/A"), "Video"),
           Plain("Pixel Format", Or(vid.pixel_format, Str("unknown")), "Video"),
           Plain("Bit Depth", Str(Tpl(Or(vid.bit_depth, Num(8))) \o "-bit"), "Video"),
           Plain("Color Space", IF vid.color_space # Str("unknown")
                                THEN vid.color_space ELSE Str("N/A"), "Video") >>
        \o When(vid.total_frames,
                Plain("Total Frames", Str(Grouped(vid.total_frames.n)), "Video"))
        \o (IF JsTruthy(vid.rotation) /\ vid.rotation # Str("0")
            THEN << Plain("Rotation", Str(Tpl(vid.rotation) \o " deg"), "Video") >> ELSE << >>)
      audio ==
        IF ~JsTruthy(aud.codec) THEN << >>
        ELSE
        << Plain("Audio Codec",
                 Str(Tpl(aud.codec) \o
                     (IF JsTruthy(aud.profile) THEN " (" \o Tpl(aud.profile) \o ")" ELSE "")), "Audio"),
           Plain("Sample Rate", IF JsTruthy(aud.sample_rate_hz)
                                THEN Str(Grouped(aud.sample_rate_hz.n) \o " Hz") ELSE Str("N/A"), "Audio"),
           Plain("Channels", Str(Tpl(Or(aud.channels, Str("?"))) \o " (" \o
                                 Tpl(Or(aud.channel_layout, Str("unknown"))) \o ")"), "Audio"),
           Plain("Audio Bitrate", IF aud.bitrate_kbps # Str("N/A")
                                  THEN Str(Tpl(aud.bitrate_kbps) \o " kbps") ELSE Str("N/A"), "Audio") >>
        \o (IF JsTruthy(aud.language) /\ aud.language # Str("unknown")
            THEN << Plain("Language", aud.language, "Audio") >> ELSE << >>)
      device ==
        When(tags.camera_device, Plain("Camera / Device", tags.camera_device, "Device"))
        \o When(tags.manufacturer, Plain("Manufacturer", tags.manufacturer, "Device"))
        \o When(tags.software_version, Plain("Software", tags.software_version, "Device"))
      gps ==
        IF JsTruthy(tags.gps_location)
        THEN << Plain("GPS Location", tags.gps_location, "Location") >>
        ELSE << Entry("GPS Location", Str("Not available"), TRUE, "Location") >>
      tagged ==
        When(tags.creation_time, Plain("Creation Time", tags.creation_time, "Tags"))
        \o When(tags.encoder, Entry("Encoder", tags.encoder, TRUE, "Tags"))
        \o When(tags.major_brand, Plain("Major Brand", tags.major_brand, "Tags"))
        \o When(tags.title, Plain("Title", tags.title, "Tags"))
        \o When(tags.comment, Plain("Comment", tags.comment, "Tags"))
  IN  IF ~HasRealData(api) THEN MockFingerprint(tab, at)
      ELSE file \o video \o audio \o device \o gps \o tagged

(***************************************************************************)
(* buildAnomalies (lines 317-333) and buildInsights (lines 336-357).  A    *)
(* text is a sequence of words.                                            *)
(***************************************************************************)
\* the words of the vocabulary that have sub as a substring
WordsWith(sub) == { sub, sub \o "s", sub \o ":" }
\* text.includes(sub), for a sub without white space
Includes(text, sub) == \E i \in 1..Len(text) : text[i] \in WordsWith(sub)

\* `${f.label}: ${f.detail}`
FlagText(f) ==
  (IF f.label = << >> THEN << ":" >>
   ELSE [f.label EXCEPT ![Len(f.label)] = @ \o ":"]) \o f.detail

\* (x * 100).toFixed(1), x in hundredths
Percent1(x) == IF IsNum(x) THEN ToString(x.n) \o ".0" ELSE "NaN"
\* (x * 100).toFixed(0)
Percent0(x) == IF IsNum(x) THEN ToString(x.n) ELSE "NaN"

RECURSIVE FlagTexts(_)
FlagTexts(flags) ==
  IF flags = << >> THEN << >> ELSE << FlagText(Head(flags)) >> \o FlagTexts(Tail(flags))

\* mockResults[tab].anomalies and .insights (lines 57-68, 95-106, 132-143,
\* 169-178), each text as a single word
MockAnomalies(tab) ==
  CASE tab = "video" ->
         << << "Facial blending artifacts detected at frames 142-189" >>,
            << "Eye blink pattern inconsistent with natural behavior" >>,
            << "Lighting discontinuity around jaw and hairline" >>,
            << "GAN fingerprint signature detected in pixel distribution" >>,
            << "Audio-visual sync drift +230ms at 0:14" >> >>
    [] tab = "audio" ->
         << << "Voice frequency spectrum shows TTS neural pattern" >>,
            << "Prosody pattern matches ElevenLabs voice model" >>,
            << "No natural breathing pauses detected between sentences" >>,
            << "Formant transitions too smooth - unnatural" >>,
            << "Background noise artificially added post-synthesis" >> >>
    [] tab = "text" ->
         << << "Burstiness score 0.12 - below human threshold (0.4+)" >>,
            << "Perplexity anomalies in paragraphs 2, 4, and 6" >>,
            << "Repetitive sentence structure typical of LLM output" >>,
            << "4 factual claims could not be verified against known sources" >>,
            << "Publication date inconsistency detected" >> >>
    [] tab = "image" ->
         << << "No GAN fingerprint detected" >>,
            << "EXIF metadata consistent with claimed device" >>,
            << "Noise distribution matches natural camera sensor" >> >>
MockInsights(tab) ==
  CASE tab = "video" ->
         << << "This video shows strong indicators of a face-swap deepfake. ..." >>,
            << "Natural eye blinking occurs 15-20 times per minute. ..." >>,
            << "The audio does not perfectly match the lip movements ..." >> >>
    [] tab = "audio" ->
         << << "This audio clip appears to be generated using a neural text-to-speech (TTS) system, ..." >>,
            << "Natural human speech contains micro-pauses, breath sounds, ..." >>,
            << "The voice model matches a known commercial voice cloning platform with 91% confidence." >> >>
    [] tab = "text" ->
         << << "This article shows mixed signals ..." >>,
            << "AI-generated text tends to have a more uniform 'burstiness' ..." >>,
            << "While the article is not entirely fabricated, ..." >> >>
    [] tab = "image" ->
         << << "This image shows no signs of digital manipulation or AI generation. ..." >>,
            << "The EXIF data matches an authentic Canon EOS R5 camera with standard settings." >>,
            << "No signs of copy-paste manipulation, cloning, or AI upscaling were found." >> >>

\* buildAnomalies without the entries of the ML results (lines 322-327)
BuildAnomalies_FlagsOnly(tab, api) ==
  LET flags == RealRisk(api).flags
      flagged == IF JsTruthy(flags) /\ Len(flags.items) > 0 THEN FlagTexts(flags.items) ELSE << >>
  IN  IF HasRealData(api) THEN flagged
      ELSE IF Len(flagged) > 0 THEN flagged ELSE MockAnomalies(tab)

\* buildAnomalies without the return of line 329: an empty list of real data
\* is replaced by the mock anomalies
BuildAnomalies_MockWhenEmpty(tab, api) ==
  LET videoML == Opt(api, "video_analysis")
      textML == Opt(api, "text_analysis")
      flags == RealRisk(api).flags
      flagged == IF JsTruthy(flags) /\ Len(flags.items) > 0 THEN FlagTexts(flags.items) ELSE << >>
      deepfake ==
        IF /\ JsTruthy(videoML)
           /\ videoML.label = Str("fake")
           /\ ~\E i \in 1..Len(flagged) : Includes(flagged[i], "Deepfake")
        THEN << << "Deepfake", "Detected:", "ML", "model", "confidence",
                   Percent1(videoML.confidence) \o "%" >> >>
        ELSE << >>
      aiText ==
        IF JsTruthy(textML) /\ textML.label = Str("ai-generated")
        THEN << << "AI-Generated", "Text:", Percent1(textML.ai_probability) \o "%",
                   "probability" >> >>
        ELSE << >>
      items == flagged \o deepfake \o aiText
  IN  IF Len(items) > 0 THEN items ELSE MockAnomalies(tab)

\* buildAnomalies (lines 317-333)
BuildAnomalies(tab, api) ==
  LET videoML == Opt(api, "video_analysis")
      textML == Opt(api, "text_analysis")
      flags == RealRisk(api).flags
      flagged == IF JsTruthy(flags) /\ Len(flags.items) > 0 THEN FlagTexts(flags.items) ELSE << >>
      deepfake ==
        IF /\ JsTruthy(videoML)
           /\ videoML.label = Str("fake")
           /\ ~\E i \in 1..Len(flagged) : Includes(flagged[i], "Deepfake")
        THEN << << "Deepfake", "Detected:", "ML", "model", "confidence",
                   Percent1(videoML.confidence) \o "%" >> >>
        ELSE << >>
      aiText ==
        IF JsTruthy(textML) /\ textML.label = Str("ai-generated")
        THEN << << "AI-Generated", "Text:", Percent1(textML.ai_probability) \o "%",
                   "probability" >> >>
        ELSE << >>
      items == flagged \o deepfake \o aiText
  IN  IF HasRealData(api) THEN items
      ELSE IF Len(items) > 0 THEN items ELSE MockAnomalies(tab)

\* buildInsights (lines 336-357)
BuildInsights(tab, api) ==
  LET videoML == Opt(api, "video_analysis")
      textML == Opt(api, "text_analysis")
      relatedArticles == IF JsTruthy(Opt(api, "related_articles"))
                         THEN api.related_articles.items ELSE << >>
      video ==
        IF ~(JsTruthy(videoML) /\ JsTruthy(videoML.label) /\ videoML.label # Str("unknown"))
        THEN << >>
        ELSE IF videoML.label = Str("fake")
        THEN << << "The deepfake detection model classified this video as FAKE with",
                   Percent1(videoML.confidence) \o "%", "confidence." >>
                \o (IF JsTruthy(videoML.per_frame)
                    THEN << ToString(Len(videoML.per_frame.items)), "frames were analyzed." >>
                    ELSE << >>) >>
        ELSE << << "The deepfake detection model classified this video as REAL with",
                   Percent1(videoML.confidence) \o "%",
                   "confidence. No manipulation artifacts were detected in the analyzed frames." >> >>
      text ==
        IF ~(JsTruthy(textML) /\ JsTruthy(textML.label) /\ textML.label # Str("unknown"))
        THEN << >>
        ELSE IF textML.label = Str("ai-generated")
        THEN << << "The AI text detector identified this content as AI-generated with",
                   Percent1(textML.ai_probability) \o "%",
                   "probability. The text shows patterns consistent with large language model output." >> >>
        ELSE << << "The AI text detector identified this content as human-written with",
                   Percent1(textML.human_probability) \o "%", "probability." >> >>
      related ==
        IF Len(relatedArticles) > 0
        THEN LET top == relatedArticles[1]
             IN << << "Found", ToString(Len(relatedArticles)),
                      "related fact-check article(s). Top match:",
                      Tpl(Or(top.title, Str("Untitled"))),
                      "(similarity:", Percent0(Or(top.similarity_score, Num(0))) \o "%)." >> >>
        ELSE << >>
      items == video \o text \o related
  IN  IF Len(items) > 0 THEN items ELSE MockInsights(tab)

\* a label that is set and is not "unknown" (lines 297, 301)
DefinitiveLabel(ml) ==
  JsTruthy(ml) /\ JsTruthy(ml.label) /\ ml.label # Str("unknown")

\* buildStatus (lines 295-314)
\* buildStatus without the ML labels of lines 297-304
BuildStatus_ScoreOnly(tab, api) ==
  IF HasRealData(api) /\ RealScore(api) # Null
  THEN IF RealScore(api).n >= 70 THEN "Likely Authentic"
       ELSE IF RealScore(api).n >= 40 THEN "Suspicious"
       ELSE "AI-Generated / Manipulated"
  ELSE MockResults(tab).status

BuildStatus(tab, api) ==
  LET videoML == Opt(api, "video_analysis")
      textML == Opt(api, "text_analysis")
      realScore == RealScore(api)
  IN  IF DefinitiveLabel(videoML) /\ videoML.label = Str("fake") THEN "Deepfake Detected"
      ELSE IF DefinitiveLabel(videoML) /\ videoML.label = Str("real") THEN "Likely Authentic"
      ELSE IF DefinitiveLabel(textML) /\ textML.label = Str("ai-generated") THEN "AI-Generated Text"
      ELSE IF DefinitiveLabel(textML) /\ textML.label = Str("human-written") THEN "Human-Written"
      ELSE IF HasRealData(api) /\ realScore # Null
           THEN IF realScore.n >= 70 THEN "Likely Authentic"
                ELSE IF realScore.n >= 40 THEN "Suspicious"
                ELSE "AI-Generated / Manipulated"
      ELSE MockResults(tab).status

\* the merged score and risk (lines 362-363)
ResultScore(tab, api) == Coalesce(RealScore(api), Num(MockResults(tab).score))
ResultRisk(tab, api) == Coalesce(RealRiskLevel(api), Str(MockResults(tab).risk))
\* line 365
ResultConfidence(tab, api) ==
  Coalesce(RealRisk(api).authenticity_score, Num(MockResults(tab).confidence))

\* result.driftData (lines 370-372)
ResultDriftData(tab, api) ==
  LET drift == Opt(api, "drift_data")
  IN  IF JsTruthy(drift) /\ Len(drift.items) > 0 THEN drift.items ELSE MockDriftData(tab)

\* riskConfig (lines 378-382): the entry of the table for result.risk
RiskConfig(risk) ==
  IF risk = Str("low") THEN Str("LOW RISK")
  ELSE IF risk = Str("medium") THEN Str("MEDIUM RISK")
  ELSE IF risk = Str("high") THEN Str("HIGH RISK")
  ELSE Undef

\* statusIcon and scoreColor (lines 384-393)
ScoreColor(score) ==
  IF score >= 75 THEN "#00ff9d" ELSE IF score >= 45 THEN "#ffd700" ELSE "#ff4444"
StatusIcon(score) ==
  IF score >= 75 THEN "CheckCircle" ELSE IF score >= 45 THEN "AlertTriangle" ELSE "XCircle"

NotRendered == [t |-> "undefined"]

(***************************************************************************)
(* Score colouring outside the dashboard: the history page (part_003) and  *)
(* the Recent analyses card of the analyze page (page.tsx lines 426-441).  *)
(***************************************************************************)
\* getScoreColor (part_003 lines 153-157)
getScoreColor(score) ==
  IF score >= 75 THEN "#00ff9d" ELSE IF score >= 45 THEN "#ffd700" ELSE "#ff4444"

\* the records of mockHistory (part_003 lines 37-148), their texts as
\* sequences of characters; "endash" stands for the character U+2013, and
\* the fields type and time, which the list does not test, are left out
MockHistory ==
  <<
  [ id |-> "1", score |-> 18, risk |-> "high",
       name |->
       << "v","i","r","a","l","_","v","i","d","e","o","_","l","e","a","k",
          ".","m","p","4" >>,
       status |->
       << "A","I","-","G","e","n","e","r","a","t","e","d" >>,
       date |->
       << "2","0","2","6","-","0","2","-","1","9" >>,
       summary |->
       << "F","a","c","i","a","l"," ","d","e","e","p","f","a","k","e"," ",
          "d","e","t","e","c","t","e","d","."," ","G","A","N"," ","a","r",
          "t","i","f","a","c","t","s"," ","i","n"," ","f","r","a","m","e",
          "s"," ","1","4","2","endash","1","8","9","." >> ],
  [ id |-> "2", score |-> 31, risk |-> "high",
       name |->
       << "b","a","n","k","_","c","a","l","l","_","r","e","c","o","r","d",
          "i","n","g",".","m","p","3" >>,
       status |->
       << "S","y","n","t","h","e","t","i","c"," ","V","o","i","c","e" >>,
       date |->
       << "2","0","2","6","-","0","2","-","1","9" >>,
       summary |->
       << "T","T","S"," ","v","o","i","c","e"," ","c","l","o","n","i","n",
          "g"," ","p","a","t","t","e","r","n"," ","d","e","t","e","c","t",
          "e","d","."," ","M","a","t","c","h","e","s"," ","E","l","e","v",
          "e","n","L","a","b","s"," ","m","o","d","e","l","." >> ],
  [ id |-> "3", score |-> 72, risk |-> "medium",
       name |->
       << "h","e","a","l","t","h","_","n","e","w","s","_","a","r","t","i",
          "c","l","e",".","t","x","t" >>,
       status |->
       << "P","a","r","t","i","a","l","l","y"," ","A","I","-","G","e","n",
          "e","r","a","t","e","d" >>,
       date |->
       << "2","0","2","6","-","0","2","-","1","8" >>,
       summary |->
       << "M","i","x","e","d"," ","h","u","m","a","n","/","A","I"," ","a",
          "u","t","h","o","r","s","h","i","p","."," ","4"," ","u","n","v",
          "e","r","i","f","i","a","b","l","e"," ","f","a","c","t","u","a",
          "l"," ","c","l","a","i","m","s","." >> ],
  [ id |-> "4", score |-> 91, risk |-> "low",
       name |->
       << "p","r","o","t","e","s","t","_","p","h","o","t","o",".","j","p",
          "g" >>,
       status |->
       << "A","u","t","h","e","n","t","i","c" >>,
       date |->
       << "2","0","2","6","-","0","2","-","1","8" >>,
       summary |->
       << "N","o"," ","m","a","n","i","p","u","l","a","t","i","o","n"," ",
          "d","e","t","e","c","t","e","d","."," ","E","X","I","F"," ","m",
          "e","t","a","d","a","t","a"," ","c","o","n","s","i","s","t","e",
          "n","t","." >> ],
  [ id |-> "5", score |-> 44, risk |-> "medium",
       name |->
       << "p","o","l","i","t","i","c","i","a","n","_","s","p","e","e","c",
          "h",".","m","p","4" >>,
       status |->
       << "T","a","m","p","e","r","e","d" >>,
       date |->
       << "2","0","2","6","-","0","2","-","1","7" >>,
       summary |->
       << "O","r","i","g","i","n","a","l"," ","v","i","d","e","o"," ","d",
          "e","t","e","c","t","e","d",","," ","b","u","t"," ","a","u","d",
          "i","o"," ","h","a","s"," ","b","e","e","n"," ","r","e","p","l",
          "a","c","e","d"," ","s","y","n","t","h","e","t","i","c","a","l",
          "l","y","." >> ],
  [ id |-> "6", score |-> 12, risk |-> "high",
       name |->
       << "v","a","c","c","i","n","e","_","m","i","s","i","n","f","o","r",
          "m","a","t","i","o","n",".","t","x","t" >>,
       status |->
       << "A","I","-","G","e","n","e","r","a","t","e","d" >>,
       date |->
       << "2","0","2","6","-","0","2","-","1","7" >>,
       summary |->
       << "F","u","l","l","y"," ","A","I","-","g","e","n","e","r","a","t",
          "e","d"," ","m","i","s","i","n","f","o","r","m","a","t","i","o",
          "n","."," ","A","l","l"," ","c","i","t","a","t","i","o","n","s",
          " ","f","a","b","r","i","c","a","t","e","d","." >> ],
  [ id |-> "7", score |-> 27, risk |-> "high",
       name |->
       << "c","e","l","e","b","r","i","t","y","_","v","o","i","c","e","_",
          "n","o","t","e",".","m","p","3" >>,
       status |->
       << "S","y","n","t","h","e","t","i","c"," ","V","o","i","c","e" >>,
       date |->
       << "2","0","2","6","-","0","2","-","1","6" >>,
       summary |->
       << "C","e","l","e","b","r","i","t","y"," ","v","o","i","c","e"," ",
          "c","l","o","n","e","d"," ","u","s","i","n","g"," ","A","I",".",
          " ","D","o"," ","n","o","t"," ","t","r","u","s","t"," ","t","h",
          "i","s"," ","r","e","c","o","r","d","i","n","g","." >> ],
  [ id |-> "8", score |-> 88, risk |-> "low",
       name |->
       << "p","r","o","d","u","c","t","_","p","h","o","t","o",".","p","n",
          "g" >>,
       status |->
       << "A","u","t","h","e","n","t","i","c" >>,
       date |->
       << "2","0","2","6","-","0","2","-","1","5" >>,
       summary |->
       << "I","m","a","g","e"," ","a","p","p","e","a","r","s"," ","a","u",
          "t","h","e","n","t","i","c"," ","w","i","t","h"," ","m","i","n",
          "o","r"," ","c","o","l","o","r"," ","c","o","r","r","e","c","t",
          "i","o","n","." >> ],
  [ id |-> "9", score |-> 79, risk |-> "low",
       name |->
       << "b","r","e","a","k","i","n","g","_","n","e","w","s","_","c","l",
          "i","p",".","m","p","4" >>,
       status |->
       << "M","o","s","t","l","y"," ","A","u","t","h","e","n","t","i","c" >>,
       date |->
       << "2","0","2","6","-","0","2","-","1","4" >>,
       summary |->
       << "N","o"," ","d","e","e","p","f","a","k","e"," ","d","e","t","e",
          "c","t","e","d","."," ","S","l","i","g","h","t"," ","c","o","n",
          "t","e","x","t"," ","r","e","f","r","a","m","i","n","g"," ","s",
          "u","s","p","e","c","t","e","d","." >> ],
  [ id |-> "10", score |-> 38, risk |-> "medium",
       name |->
       << "s","u","s","p","i","c","i","o","u","s","_","w","h","a","t","s",
          "a","p","p",".","t","x","t" >>,
       status |->
       << "S","u","s","p","i","c","i","o","u","s" >>,
       date |->
       << "2","0","2","6","-","0","2","-","1","3" >>,
       summary |->
       << "C","h","a","i","n"," ","m","e","s","s","a","g","e"," ","w","i",
          "t","h"," ","u","n","v","e","r","i","f","i","a","b","l","e"," ",
          "c","l","a","i","m","s"," ","a","n","d"," ","f","e","a","r","-",
          "b","a","s","e","d"," ","l","a","n","g","u","a","g","e","." >> ]
  >>

\* the colour of a score in Recent analyses (page.tsx line 437)
RecentColor(score) ==
  IF score < 40 THEN "#ff4444" ELSE IF score < 70 THEN "#ffd700" ELSE "#00ff9d"

\* one render of ResultsDashboard (lines 211-393, shown at 512-568); reading
\* riskConfig.color of an undefined riskConfig (line 512) throws
Dashboard(p) ==
  LET score == ResultScore(p.tab, p.apiResult)
      risk == ResultRisk(p.tab, p.apiResult)
  IN  [ t |-> "object",
        hasRealData |-> HasRealData(p.apiResult),
        score |-> score,
        risk |-> risk,
        status |-> BuildStatus(p.tab, p.apiResult),
        confidence |-> ResultConfidence(p.tab, p.apiResult),
        fingerprint |-> BuildFingerprint(p.tab, p.apiResult, loadedAt),
        anomalies |-> BuildAnomalies(p.tab, p.apiResult),
        insights |-> BuildInsights(p.tab, p.apiResult),
        driftData |-> ResultDriftData(p.tab, p.apiResult),
        riskLabel |-> RiskConfig(risk),
        scoreColor |-> ScoreColor(score.n),
        statusIcon |-> StatusIcon(score.n),
        threw |-> RiskConfig(risk) = Undef ]

\* the props the page hands to ResultsDashboard (page.tsx line 144)
Props ==
  [ tab |-> activeTab,
    fileName |-> IF HasFile(uploadedFile) THEN Str(uploadedFile.name) ELSE Undef,
    textSnippet |-> textInput,
    apiResult |-> apiResult ]

\* the page renders ResultsDashboard (page.tsx lines 143-145)
Render ==
  /\ stage = "results"
  /\ shown' = Dashboard(Props)
  /\ UNCHANGED << pageVars, coreVars, loadedAt, discarded, sideVars >>

\* New Analysis (ResultsDashboard.tsx line 425): onReset, the dashboard unmounts
NewAnalysis ==
  /\ shown # NotRendered
  /\ ~shown.threw
  /\ ResetState
  /\ shown' = NotRendered
  /\ UNCHANGED << coreVars, loadedAt, sideVars >>

(***************************************************************************)
(* The analysis service (spec sections 3-7).  Its code, backend/api.py and *)
(* what it imports, is not among the sources; it is modelled from the      *)
(* specification.                                                          *)
(***************************************************************************)
\* requests the service receives in one behaviour
MaxRequests == 2

\* Score Aggregator (4.4): baseline score and default detector weight, the
\* penalty being confidence (in hundredths) x weight / 100
Baseline == 100
DetectorWeight == 100

Kinds == {"video", "audio", "image", "text"}

\* Orchestrator (4.3): the detectors that apply to a declared kind
Applicable(kind) ==
  CASE kind = "video" -> {"video-deepfake", "audio-voiceclone", "metadata-forensics"}
    [] kind = "audio" -> {"audio-voiceclone", "metadata-forensics"}
    [] kind = "image" -> {"image-manipulation", "metadata-forensics"}
    [] kind = "text"  -> {"text-origin", "related-article-lookup"}

\* DetectorResult (3): status, label and confidence in hundredths
Running == [status |-> "running", label |-> "", confidence |-> 0]
TimedOut == [status |-> "timed_out", label |-> "", confidence |-> 0]
Failed == [status |-> "failed", label |-> "", confidence |-> 0]
Ok(label, confidence) == [status |-> "ok", label |-> label, confidence |-> confidence]

\* labels that indicate manipulation (4.4)
Manipulation == {"fake", "ai-generated", "synthetic"}

\* Detector Adapter (4.2): what analyze can return for a detector
Outcomes(d) ==
  CASE d = "video-deepfake" -> {Ok("fake", 94), Ok("real", 85), Failed}
    [] d = "audio-voiceclone" -> {Ok("synthetic", 50), Ok("real", 85), Failed}
    [] d = "image-manipulation" -> {Ok("fake", 30), Ok("real", 85), Failed}
    [] d = "text-origin" -> {Ok("ai-generated", 60), Ok("human-written", 85), Failed}
    [] OTHER -> {Ok("", 0), Failed}

\* Ephemeral Content Store (4.1): put, open, delete
NotFound == [id |-> 0, byte_size |-> 0, modality |-> "none"]
put(s, id, file) == s \cup { [id |-> id, byte_size |-> file.sizeMB, modality |-> file.modality] }
open(s, id) == IF \E c \in s : c.id = id THEN CHOOSE c \in s : c.id = id ELSE NotFound
delete_Keeps(s, id) == s
delete(s, id) == { c \in s : c.id # id }

\* Request Endpoint (4.6, 7a): the typed error of a request, "" when accepted
Rejection(file, text) ==
  IF HasFile(file) = NonEmpty(text) THEN "InvalidRequest"
  ELSE IF HasFile(file) /\ file.sizeMB > MaxUploadMB THEN "ContentTooLarge"
  ELSE ""
UnsupportedFormat(file, kind) == HasFile(file) /\ file.modality # kind

RequestIds == 1..Len(requests)
Settled(res) == res.status \in {"ok", "failed", "timed_out"}
AllSettled(q) == \A d \in DOMAIN requests[q].results : Settled(requests[q].results[d])
OkDetectors(results) == { d \in DOMAIN results : results[d].status = "ok" }

\* Score Aggregator (4.4): the penalties of the detectors in ds
RECURSIVE Penalties(_, _)
Penalties(results, ds) ==
  IF ds = {} THEN 0
  ELSE LET d == CHOOSE x \in ds : TRUE
           r == results[d]
           penalty == IF r.status = "ok" /\ r.label \in Manipulation
                      THEN (r.confidence * DetectorWeight) \div 100
                      ELSE 0
       IN  penalty + Penalties(results, ds \ {d})

Clamp(n) == IF n < 0 THEN 0 ELSE IF n > 100 THEN 100 ELSE n

\* risk tier of a score (3, 8): >= 75 low, 45..74 medium, < 45 high
RiskLevel(score) == IF score >= 75 THEN "low" ELSE IF score >= 45 THEN "medium" ELSE "high"

\* an aggregator for which a detector without a result counts as evidence of
\* manipulation
aggregate_CountsMissing(results) ==
  LET missing == { d \in DOMAIN results : results[d].status # "ok" }
      score == Clamp(Baseline - Penalties(results, DOMAIN results)
                              - Cardinality(missing) * DetectorWeight)
  IN  IF OkDetectors(results) = {}
      THEN [score |-> Null, risk_level |-> Str("unknown")]
      ELSE [score |-> Num(score), risk_level |-> Str(RiskLevel(score))]

\* Score Aggregator (4.4): aggregate(sequence of DetectorResult)
aggregate(results) ==
  LET score == Clamp(Baseline - Penalties(results, DOMAIN results))
  IN  IF OkDetectors(results) = {}
      THEN [score |-> Null, risk_level |-> Str("unknown")]
      ELSE [score |-> Num(score), risk_level |-> Str(RiskLevel(score))]

\* Report Builder (4.5): the AuthenticityReport, with the fields the claims
\* read: score, risk_level, per-detector results
NoReport == [score |-> Undef, risk_level |-> Undef, detector_results |-> <<>>]
build(results, agg) ==
  [score |-> agg.score, risk_level |-> agg.risk_level, detector_results |-> results]

\* the report as the body of the response (6: field names score, risk_level)
ReportBody(report) ==
  [ t |-> "object", score |-> report.score, risk_level |-> report.risk_level,
    video_analysis |-> Undef, text_analysis |-> Undef, metadata |-> Undef,
    risk_assessment |-> Undef, drift_data |-> Undef, related_articles |-> Undef,
    models_used |-> Undef ]

CoreInit ==
  /\ store = {}
  /\ nextId = 1
  /\ requests = <<>>

\* POST /analyze arrives (4.6): client input errors are reported at once,
\* nothing is persisted and no detector runs (7a); otherwise the upload is put
\* into the store and the applicable adapters are dispatched (4.3)
Receive(file, text, kind) ==
  /\ Len(requests) < MaxRequests
  /\ LET error == IF Rejection(file, text) # "" THEN Rejection(file, text)
                  ELSE IF UnsupportedFormat(file, kind) THEN "UnsupportedFormat"
                  ELSE ""
         declared == IF HasFile(file) THEN kind ELSE "text"
     IN  IF error # ""
         THEN /\ requests' = Append(requests,
                   [kind |-> declared, content_ref |-> 0, results |-> << >>,
                    deletes |-> 0, connected |-> TRUE, pc |-> "done",
                    response |-> error, report |-> NoReport])
              /\ UNCHANGED << store, nextId >>
         ELSE /\ store' = IF HasFile(file) THEN put(store, nextId, file) ELSE store
              /\ nextId' = IF HasFile(file) THEN nextId + 1 ELSE nextId
              /\ requests' = Append(requests,
                   [kind |-> declared,
                    content_ref |-> IF HasFile(file) THEN nextId ELSE 0,
                    results |-> [d \in Applicable(declared) |-> Running],
                    deletes |-> 0, connected |-> TRUE, pc |-> "running",
                    response |-> "", report |-> NoReport])
  /\ UNCHANGED << pageVars, shown, loadedAt, discarded, sideVars >>

\* an adapter returns its DetectorResult (4.2)
AdapterSettles(q, d, res) ==
  /\ q \in RequestIds
  /\ requests[q].pc = "running"
  /\ d \in DOMAIN requests[q].results
  /\ requests[q].results[d] = Running
  /\ res \in Outcomes(d)
  /\ requests' = [requests EXCEPT ![q].results[d] = res]
  /\ UNCHANGED << store, nextId, pageVars, shown, loadedAt, discarded, sideVars >>

\* the per-adapter timeout of one adapter fires (5): it is marked timed_out,
\* the others keep running
AdapterTimeout(q, d) ==
  /\ q \in RequestIds
  /\ requests[q].pc = "running"
  /\ d \in DOMAIN requests[q].results
  /\ requests[q].results[d] = Running
  /\ requests' = [requests EXCEPT ![q].results[d] = TimedOut]
  /\ UNCHANGED << store, nextId, pageVars, shown, loadedAt, discarded, sideVars >>

\* the request timeout fires (4.3): every adapter not completed is marked
\* timed_out
RequestTimeout(q) ==
  /\ q \in RequestIds
  /\ requests[q].pc = "running"
  /\ \E d \in DOMAIN requests[q].results : requests[q].results[d] = Running
  /\ requests' = [requests EXCEPT ![q].results =
                    [d \in DOMAIN @ |-> IF @[d] = Running THEN TimedOut ELSE @[d]]]
  /\ UNCHANGED << store, nextId, pageVars, shown, loadedAt, discarded, sideVars >>

\* the caller goes away while the request is handled (4.3)
Disconnect(q) ==
  /\ q \in RequestIds
  /\ requests[q].pc = "running"
  /\ requests[q].connected
  /\ requests' = [requests EXCEPT ![q].connected = FALSE]
  /\ UNCHANGED << store, nextId, pageVars, shown, loadedAt, discarded, sideVars >>

\* a cleanup that any settled adapter releases
CleanupDue_AnySettled(q) ==
  /\ requests[q].deletes = 0
  /\ \E d \in DOMAIN requests[q].results : Settled(requests[q].results[d])

\* the guard of the cleanup (5, 9): every adapter has settled and the delete
\* has not fired
CleanupDue(q) ==
  /\ requests[q].deletes = 0
  /\ AllSettled(q)

\* the guaranteed-cleanup block of the Orchestrator (4.1, 4.3)
Cleanup(q) ==
  /\ q \in RequestIds
  /\ requests[q].pc = "running"
  /\ CleanupDue(q)
  /\ store' = delete(store, requests[q].content_ref)
  /\ requests' = [requests EXCEPT ![q].deletes = @ + 1]
  /\ UNCHANGED << nextId, pageVars, shown, loadedAt, discarded, sideVars >>

\* fan-in: the results are aggregated, the report is built and returned, the
\* request completes (4.4 - 4.6)
Respond(q) ==
  /\ q \in RequestIds
  /\ requests[q].pc = "running"
  /\ AllSettled(q)
  /\ requests[q].deletes > 0
  /\ requests' = [requests EXCEPT
       ![q].pc = "done",
       ![q].response = IF requests[q].connected THEN "report" ELSE "dropped",
       ![q].report = build(requests[q].results, aggregate(requests[q].results))]
  /\ UNCHANGED << store, nextId, pageVars, shown, loadedAt, discarded, sideVars >>

CoreNext ==
  \/ \E f \in {NoFile} \cup Files, t \in FewTexts \cup {<<"t">>}, k \in Kinds : Receive(f, t, k)
  \/ \E q \in 1..MaxRequests, d \in UNION { Applicable(k) : k \in Kinds } :
       \E res \in Outcomes(d) : AdapterSettles(q, d, res)
  \/ \E q \in 1..MaxRequests, d \in UNION { Applicable(k) : k \in Kinds } : AdapterTimeout(q, d)
  \/ \E q \in 1..MaxRequests : RequestTimeout(q)
  \/ \E q \in 1..MaxRequests : Disconnect(q)
  \/ \E q \in 1..MaxRequests : Cleanup(q)
  \/ \E q \in 1..MaxRequests : Respond(q)

\* what the user can do on the page at any moment, with inputs from the given
\* sets
PageUser(tabs, files, texts, urls) ==
  \/ \E t \in tabs : SwitchTab(t)
  \/ DragOver
  \/ DragLeave
  \/ \E f \in files : HandleDrop(f)
  \/ \E f \in files : HandleFileChange(f)
  \/ RemoveFile
  \/ \E s \in texts : SetTextInput(s)
  \/ \E u \in urls : SetUrlInput(u)
  \/ AnalyzeFile
  \/ Reset

\* no run is in progress and no interval of an earlier run is still alive
PageQuiet == \A r \in RunIds : ~InProgress(r) /\ ~runs[r].ticking

\* the same, for a user who acts only while the page is quiet
PageUserQuiet(tabs, files, texts, urls) ==
  \/ \E t \in tabs : PageQuiet /\ SwitchTab(t)
  \/ PageQuiet /\ DragOver
  \/ PageQuiet /\ DragLeave
  \/ \E f \in files : PageQuiet /\ HandleDrop(f)
  \/ \E f \in files : PageQuiet /\ HandleFileChange(f)
  \/ PageQuiet /\ RemoveFile
  \/ \E s \in texts : PageQuiet /\ SetTextInput(s)
  \/ \E u \in urls : PageQuiet /\ SetUrlInput(u)
  \/ PageQuiet /\ AnalyzeFile
  \/ PageQuiet /\ Reset

\* promise resolutions and timer firings of the runs
(***************************************************************************)
(* context/AuthContext.tsx (AuthProvider, lines 16-53).  An email is a     *)
(* sequence of characters, a stored value the characters of a JSON text.   *)
(***************************************************************************)
EmailChars == {"a", "@", "\"", "\\"}
RECURSIVE SeqsUpTo(_, _)
SeqsUpTo(chars, n) ==
  IF n = 0 THEN {<< >>}
  ELSE LET shorter == SeqsUpTo(chars, n - 1)
       IN  shorter \cup {Append(q, c) : q \in shorter, c \in chars}
Emails == SeqsUpTo(EmailChars, MaxEmailLen) \ {<< >>}
Routes == {"/", "/login", "/signup", "/analyze"}
StorageKey == "truth_x_user"

AuthUser(email) == [t |-> "object", email |-> email]

\* the body of a JSON string: quotation mark and reverse solidus are escaped
RECURSIVE JsonEscape(_)
JsonEscape(chars) ==
  IF chars = << >> THEN << >>
  ELSE (IF Head(chars) \in {"\"", "\\"} THEN << "\\", Head(chars) >> ELSE << Head(chars) >>)
       \o JsonEscape(Tail(chars))
RECURSIVE JsonUnescape(_)
JsonUnescape(chars) ==
  IF chars = << >> THEN << >>
  ELSE IF Head(chars) = "\\" /\ Len(chars) > 1
       THEN << chars[2] >> \o JsonUnescape(Tail(Tail(chars)))
       ELSE << Head(chars) >> \o JsonUnescape(Tail(chars))
\* JSON.stringify({ email }) and JSON.parse of such a text
JsonPrefix == << "{", "\"", "e", "m", "a", "i", "l", "\"", ":", "\"" >>
JsonSuffix == << "\"", "}" >>
JsonStringify(u) == JsonPrefix \o JsonEscape(u.email) \o JsonSuffix
JsonParse(text) ==
  AuthUser(JsonUnescape(SubSeq(text, Len(JsonPrefix) + 1, Len(text) - Len(JsonSuffix))))

\* localStorage.getItem / setItem / removeItem
getItem(key) == IF key \in DOMAIN localStorage THEN localStorage[key] ELSE Null
setItem(key, value) ==
  [k \in DOMAIN localStorage \cup {key} |-> IF k = key THEN value ELSE localStorage[k]]
removeItem(key) == [k \in DOMAIN localStorage \ {key} |-> localStorage[k]]
NoItems == [k \in {} |-> Null]

\* isAuthenticated: !!user (line 49)
isAuthenticated == user # Null /\ user # Undef

\* the provider is mounted in a browser whose storage holds what the last
\* login, signup or logout of an earlier visit left
AuthInit ==
  /\ user = Null
  /\ effectRan = FALSE
  /\ pathname \in Routes
  /\ lastAuth \in {Null} \cup {AuthUser(e) : e \in Emails}
  /\ localStorage = IF lastAuth = Null THEN NoItems
                    ELSE [k \in {StorageKey} |-> JsonStringify(lastAuth)]
\* the provider of the other specifications: nobody has logged in
AuthIdle ==
  /\ user = Null
  /\ effectRan = FALSE
  /\ pathname = "/analyze"
  /\ lastAuth = Null
  /\ localStorage = NoItems

\* the effect of lines 20-26, once after each mount
MountEffect ==
  /\ ~effectRan
  /\ effectRan' = TRUE
  /\ LET storedUser == getItem(StorageKey)
     IN  user' = IF storedUser # Null /\ storedUser # << >> THEN JsonParse(storedUser) ELSE user
  /\ UNCHANGED << localStorage, pathname, lastAuth >>
  /\ UNCHANGED << pageVars, shown, coreVars, loadedAt, discarded, liveVars, historyVars >>

\* the page is loaded again: the provider is mounted anew
Remount ==
  /\ effectRan
  /\ user' = Null
  /\ effectRan' = FALSE
  /\ UNCHANGED << localStorage, pathname, lastAuth >>
  /\ UNCHANGED << pageVars, shown, coreVars, loadedAt, discarded, liveVars, historyVars >>

\* a Link is followed; the provider of the root layout stays mounted
Navigate(route) ==
  /\ effectRan
  /\ pathname' = route
  /\ UNCHANGED << user, localStorage, effectRan, lastAuth >>
  /\ UNCHANGED << pageVars, shown, coreVars, loadedAt, discarded, liveVars, historyVars >>

login(email) ==
  /\ effectRan
  /\ LET newUser == AuthUser(email)
     IN  /\ user' = newUser
         /\ localStorage' = setItem(StorageKey, JsonStringify(newUser))
         /\ lastAuth' = newUser
  /\ pathname' = "/"
  /\ UNCHANGED effectRan
  /\ UNCHANGED << pageVars, shown, coreVars, loadedAt, discarded, liveVars, historyVars >>

signup(email) ==
  /\ effectRan
  /\ LET newUser == AuthUser(email)
     IN  /\ user' = newUser
         /\ localStorage' = setItem(StorageKey, JsonStringify(newUser))
         /\ lastAuth' = newUser
  /\ pathname' = "/"
  /\ UNCHANGED effectRan
  /\ UNCHANGED << pageVars, shown, coreVars, loadedAt, discarded, liveVars, historyVars >>

\* logout without the removeItem of line 44
logout_KeepsItem ==
  /\ effectRan
  /\ user' = Null
  /\ lastAuth' = Null
  /\ pathname' = "/login"
  /\ UNCHANGED << localStorage, effectRan >>
  /\ UNCHANGED << pageVars, shown, coreVars, loadedAt, discarded, liveVars, historyVars >>

logout ==
  /\ effectRan
  /\ user' = Null
  /\ localStorage' = removeItem(StorageKey)
  /\ lastAuth' = Null
  /\ pathname' = "/login"
  /\ UNCHANGED effectRan
  /\ UNCHANGED << pageVars, shown, coreVars, loadedAt, discarded, liveVars, historyVars >>

AuthNext ==
  \/ MountEffect
  \/ Remount
  \/ \E route \in Routes : Navigate(route)
  \/ \E email \in Emails : login(email)
  \/ \E email \in Emails : signup(email)
  \/ logout

(***************************************************************************)
(* The live detection page: LiveDetectionPage.  The alert sequence effect  *)
(* runs after the render that follows a change of callActive; React        *)
(* flushes the effects of a click before the task of the click ends, so no *)
(* timer and no other click comes between a click and its effect.          *)
(***************************************************************************)
mockAlertSequence ==
  << [type |-> "INFO", message |-> "Real-time stream connected", severity |-> "info"],
     [type |-> "INFO", message |-> "Audio frequency analysis started", severity |-> "info"],
     [type |-> "WARNING", message |-> "Facial region detected", severity |-> "warning"],
     [type |-> "WARNING", message |-> "Prosody pattern anomaly", severity |-> "warning"],
     [type |-> "DANGER", message |-> "Face-swap artifact detected", severity |-> "danger"],
     [type |-> "DANGER", message |-> "AI voice synthesis pattern confirmed", severity |-> "danger"] >>

\* Array.prototype.slice(0, n)
Slice(list, n) == SubSeq(list, 1, IF Len(list) < n THEN Len(list) ELSE n)

\* the state of a page that has just been mounted
LiveInit ==
  /\ callActive = FALSE
  /\ status = "idle"
  /\ alerts = << >>
  /\ showAlert = FALSE
  /\ alertDismissed = FALSE
  /\ alertIdRef = 0
  /\ timeouts = {}
  /\ effectFor = FALSE
  /\ sessions = 0

\* callActive has changed and the effect has not yet run for the new value
EffectDue == effectFor # callActive
\* the render condition of the alert modal
ModalVisible == showAlert /\ ~alertDismissed

\* startCall without setAlerts([])
startCall_KeepsAlerts ==
  /\ ~callActive
  /\ ~EffectDue
  /\ sessions < MaxSessions
  /\ callActive' = TRUE
  /\ showAlert' = FALSE
  /\ alertDismissed' = FALSE
  /\ status' = "scanning"
  /\ sessions' = sessions + 1
  /\ UNCHANGED << alerts, alertIdRef, timeouts, effectFor >>
  /\ UNCHANGED << pageVars, shown, coreVars, loadedAt, discarded, authVars, historyVars >>

\* the Start button, rendered while no call is active
startCall ==
  /\ ~callActive
  /\ ~EffectDue
  /\ sessions < MaxSessions
  /\ callActive' = TRUE
  /\ alerts' = << >>
  /\ showAlert' = FALSE
  /\ alertDismissed' = FALSE
  /\ status' = "scanning"
  /\ sessions' = sessions + 1
  /\ UNCHANGED << alertIdRef, timeouts, effectFor >>
  /\ UNCHANGED << pageVars, shown, coreVars, loadedAt, discarded, authVars, historyVars >>

\* the End Session button, rendered while a call is active, and the End
\* Call Now button of the modal
endCall ==
  /\ callActive \/ ModalVisible
  /\ ~EffectDue
  /\ callActive' = FALSE
  /\ status' = "idle"
  /\ showAlert' = FALSE
  /\ UNCHANGED << alerts, alertDismissed, alertIdRef, timeouts, effectFor, sessions >>
  /\ UNCHANGED << pageVars, shown, coreVars, loadedAt, discarded, authVars, historyVars >>

\* the X button of the modal
DismissAlert ==
  /\ ModalVisible
  /\ ~EffectDue
  /\ alertDismissed' = TRUE
  /\ UNCHANGED << callActive, status, alerts, showAlert, alertIdRef, timeouts,
                  effectFor, sessions >>
  /\ UNCHANGED << pageVars, shown, coreVars, loadedAt, discarded, authVars, historyVars >>

\* the effect without the cleanup of line 105
AlertEffect_NoCleanup ==
  /\ EffectDue
  /\ effectFor' = callActive
  /\ IF callActive
       THEN /\ status' = "scanning"
            /\ timeouts' = {i - 1 : i \in DOMAIN mockAlertSequence}
       ELSE UNCHANGED << status, timeouts >>
  /\ UNCHANGED << callActive, alerts, showAlert, alertDismissed, alertIdRef, sessions >>
  /\ UNCHANGED << pageVars, shown, coreVars, loadedAt, discarded, authVars, historyVars >>

\* the alert sequence effect: the cleanup of its last run clears the
\* timers that run set, then the body sets one timer for each entry
AlertEffect ==
  /\ EffectDue
  /\ effectFor' = callActive
  /\ IF callActive
       THEN /\ status' = "scanning"
            /\ timeouts' = {i - 1 : i \in DOMAIN mockAlertSequence}
       ELSE /\ UNCHANGED status
            /\ timeouts' = {}
  /\ UNCHANGED << callActive, alerts, showAlert, alertDismissed, alertIdRef, sessions >>
  /\ UNCHANGED << pageVars, shown, coreVars, loadedAt, discarded, authVars, historyVars >>

\* the timer of entry i fires, after (i + 1) * 2500 ms: the timers of one
\* run fire in the order of their delays
AlertTimeout(i) ==
  /\ ~EffectDue
  /\ i \in timeouts
  /\ \A j \in timeouts : i <= j
  /\ LET alert == mockAlertSequence[i + 1]
         newAlert == [id |-> alertIdRef, type |-> alert.type,
                      message |-> alert.message, severity |-> alert.severity]
     IN  alerts' = Slice(<< newAlert >> \o alerts, AlertLimit)
  /\ alertIdRef' = alertIdRef + 1
  /\ status' = IF i = 3 THEN "suspicious"
               ELSE IF i = 4 \/ i = 5 THEN "deepfake" ELSE status
  /\ showAlert' = IF i = 5 THEN TRUE ELSE showAlert
  /\ timeouts' = timeouts \ {i}
  /\ UNCHANGED << callActive, alertDismissed, effectFor, sessions >>
  /\ UNCHANGED << pageVars, shown, coreVars, loadedAt, discarded, authVars, historyVars >>

LiveNext ==
  \/ startCall
  \/ endCall
  \/ DismissAlert
  \/ AlertEffect
  \/ \E i \in 0..5 : AlertTimeout(i)

(***************************************************************************)
(* The history page: HistoryPage (part_003).  The list is computed from    *)
(* search, filterStatus and sortBy at each render.                         *)
(***************************************************************************)
UpperCase ==
  [ A |-> "a", B |-> "b", C |-> "c", D |-> "d", E |-> "e", F |-> "f", G |-> "g",
    H |-> "h", I |-> "i", J |-> "j", K |-> "k", L |-> "l", M |-> "m", N |-> "n",
    O |-> "o", P |-> "p", Q |-> "q", R |-> "r", S |-> "s", T |-> "t", U |-> "u",
    V |-> "v", W |-> "w", X |-> "x", Y |-> "y", Z |-> "z" ]
\* String.prototype.toLowerCase, over the characters of the model
toLowerCase(text) ==
  [k \in DOMAIN text |-> IF text[k] \in DOMAIN UpperCase THEN UpperCase[text[k]] ELSE text[k]]
\* String.prototype.includes
StrIncludes(text, sub) ==
  \E k \in 1..(Len(text) - Len(sub) + 1) : SubSeq(text, k, k + Len(sub) - 1) = sub
\* the collation rank of the characters of a date
DateChars == << "-", "0", "1", "2", "3", "4", "5", "6", "7", "8", "9" >>
CollationRank(c) == CHOOSE k \in DOMAIN DateChars : DateChars[k] = c
\* String.prototype.localeCompare, for texts of the characters of dates
RECURSIVE localeCompare(_, _)
localeCompare(x, y) ==
  IF x = << >> /\ y = << >> THEN 0
  ELSE IF x = << >> THEN -1
  ELSE IF y = << >> THEN 1
  ELSE IF CollationRank(Head(x)) < CollationRank(Head(y)) THEN -1
  ELSE IF CollationRank(Head(x)) > CollationRank(Head(y)) THEN 1
  ELSE localeCompare(Tail(x), Tail(y))

FilterStatuses == {"all", "authentic", "ai-generated", "tampered", "suspicious"}
SortKeys == {"date", "score", "risk"}
SearchChars == {"a", "A", "i", "I", "t"}
Searches == SeqsUpTo(SearchChars, MaxSearchLen)

Ai == << "a", "i" >>
Tamper == << "t", "a", "m", "p", "e", "r" >>
Suspicious == << "s", "u", "s", "p", "i", "c", "i", "o", "u", "s" >>

\* matchSearch with includes on the texts as they are
matchSearch_CaseSensitive(item) ==
  \/ StrIncludes(item.name, search)
  \/ StrIncludes(item.status, search)
  \/ StrIncludes(item.summary, search)

matchSearch(item) ==
  \/ StrIncludes(toLowerCase(item.name), toLowerCase(search))
  \/ StrIncludes(toLowerCase(item.status), toLowerCase(search))
  \/ StrIncludes(toLowerCase(item.summary), toLowerCase(search))

matchFilter(item) ==
  \/ filterStatus = "all"
  \/ filterStatus = "authentic" /\ item.score >= 75
  \/ filterStatus = "ai-generated" /\ StrIncludes(toLowerCase(item.status), Ai)
  \/ filterStatus = "tampered" /\ StrIncludes(toLowerCase(item.status), Tamper)
  \/ filterStatus = "suspicious" /\ StrIncludes(toLowerCase(item.status), Suspicious)

riskOrder == [high |-> 0, medium |-> 1, low |-> 2]
\* the comparator of the sort
Compare(a, b) ==
  IF sortBy = "score" THEN b.score - a.score
  ELSE IF sortBy = "risk" THEN riskOrder[a.risk] - riskOrder[b.risk]
  ELSE localeCompare(b.date, a.date)

\* Array.prototype.filter
RECURSIVE Filter(_)
Filter(list) ==
  IF list = << >> THEN << >>
  ELSE IF matchSearch(Head(list)) /\ matchFilter(Head(list))
       THEN << Head(list) >> \o Filter(Tail(list))
       ELSE Filter(Tail(list))

\* Array.prototype.sort, which is stable: x goes behind every element that
\* the comparator does not put behind it
RECURSIVE InsertSorted(_, _)
InsertSorted(sorted, x) ==
  IF sorted = << >> THEN << x >>
  ELSE LET last == sorted[Len(sorted)]
       IN  IF Compare(last, x) <= 0 THEN Append(sorted, x)
           ELSE Append(InsertSorted(SubSeq(sorted, 1, Len(sorted) - 1), x), last)
RECURSIVE SortList(_)
SortList(list) ==
  IF list = << >> THEN << >>
  ELSE InsertSorted(SortList(SubSeq(list, 1, Len(list) - 1)), list[Len(list)])

filtered == SortList(Filter(MockHistory))

\* the state of a page that has just been mounted
HistoryInit ==
  /\ search = << >>
  /\ filterStatus = "all"
  /\ sortBy = "date"

setSearch(text) ==
  /\ search' = text
  /\ UNCHANGED << filterStatus, sortBy >>
  /\ UNCHANGED << pageVars, shown, coreVars, loadedAt, discarded, authVars, liveVars >>

setFilterStatus(value) ==
  /\ filterStatus' = value
  /\ UNCHANGED << search, sortBy >>
  /\ UNCHANGED << pageVars, shown, coreVars, loadedAt, discarded, authVars, liveVars >>

setSortBy(value) ==
  /\ sortBy' = value
  /\ UNCHANGED << search, filterStatus >>
  /\ UNCHANGED << pageVars, shown, coreVars, loadedAt, discarded, authVars, liveVars >>

HistoryNext ==
  \/ \E text \in Searches : setSearch(text)
  \/ \E value \in FilterStatuses : setFilterStatus(value)
  \/ \E value \in SortKeys : setSortBy(value)

SideInit == AuthIdle /\ LiveInit /\ HistoryInit

PageAsync ==
  \/ \E r \in 1..MaxRuns, probe \in Probes : HealthUp(r, probe)
  \/ \E r \in 1..MaxRuns, probe \in Probes : HealthDown(r, probe)
  \/ \E r \in 1..MaxRuns : UploadTick(r)
  \/ \E r \in 1..MaxRuns : StepTick(r)
  \/ \E r \in 1..MaxRuns : ProgressTick(r)
  \/ \E r \in 1..MaxRuns : SendAnalyze(r)
  \/ \E r \in 1..MaxRuns, resp \in Responses(PageBodies) : AnalyzeSettled(r, resp)

Init ==
  /\ PageInit
  /\ shown = NotRendered
  /\ CoreInit
  /\ loadedAt = 1
  /\ discarded = FALSE
  /\ SideInit

\* Spec: the analyze page; the user may act at any moment, also while runs are
\* in progress (runs overlap); few inputs.
Next ==
  \/ PageUser(FewTabs, FewFiles, FewTexts, FewUrls)
  \/ PageAsync
Spec == Init /\ [][Next]_vars

\* SpecLive: the analyze page of a user who stages or removes a file, clicks
\* Analyze and resets at any moment, where every pending callback of a run is
\* eventually called: the health check settles, the intervals and the timeout
\* keep firing, the analyze request settles.  The user is under no obligation.
NextLive ==
  \/ \E f \in FewFiles : HandleDrop(f)
  \/ RemoveFile
  \/ AnalyzeFile
  \/ Reset
  \/ PageAsync
RunFairness(r) ==
  /\ WF_vars(\E probe \in Probes : HealthUp(r, probe) \/ HealthDown(r, probe))
  /\ WF_vars(UploadTick(r))
  /\ WF_vars(StepTick(r))
  /\ WF_vars(ProgressTick(r))
  /\ WF_vars(SendAnalyze(r))
  /\ WF_vars(\E resp \in Responses(PageBodies) : AnalyzeSettled(r, resp))
SpecLive == Init /\ [][NextLive]_vars /\ \A r \in 1..MaxRuns : RunFairness(r)

\* SpecInputs: the analyze page with all inputs; the user acts only while the
\* page is quiet.
NextInputs ==
  \/ PageUserQuiet(Tabs, Files, Texts, Urls)
  \/ PageAsync
SpecInputs == Init /\ [][NextInputs]_vars

\* SpecDash: the dashboard.  The page is in stage results, after one run that
\* the backend answered with any of ApiResults.
DashInit ==
  /\ activeTab \in Tabs
  /\ stage = "results"
  /\ dragOver = FALSE
  /\ uploadedFile \in (IF HasDropZone(activeTab) THEN {NoFile, ClipMp4} ELSE {NoFile})
  /\ textInput = <<>>
  /\ urlInput = <<>>
  /\ scanStep = ScanMessagesLength
  /\ scanProgress = ScanFull
  /\ uploadProgress = UploadFull
  /\ apiResult \in ApiResults
  /\ runs = << Ended([NewRun(activeTab, uploadedFile, textInput, urlInput) EXCEPT
                        !.health = "up", !.probe = Response(200),
                        !.progress = UploadFull,
                        !.step = ScanMessagesLength, !.resp = "ok"], "succeeded") >>
  /\ shown = NotRendered
  /\ CoreInit
  /\ loadedAt \in LoadTimes
  /\ discarded = FALSE
  /\ SideInit

NextDash ==
  \/ Render
  \/ NewAnalysis
SpecDash == DashInit /\ [][NextDash]_vars

\* SpecAuth: the AuthProvider, with the analyze page left alone
InitAuth ==
  /\ PageInit
  /\ shown = NotRendered
  /\ CoreInit
  /\ loadedAt = 1
  /\ discarded = FALSE
  /\ AuthInit
  /\ LiveInit
  /\ HistoryInit
SpecAuth == InitAuth /\ [][AuthNext]_vars

\* SpecCall: the live detection page, with the other pages left alone
InitCall ==
  /\ PageInit
  /\ shown = NotRendered
  /\ CoreInit
  /\ loadedAt = 1
  /\ discarded = FALSE
  /\ AuthIdle
  /\ LiveInit
  /\ HistoryInit
SpecCall == InitCall /\ [][LiveNext]_vars

\* SpecHistory: the history page, with the other pages left alone
InitHistory ==
  /\ PageInit
  /\ shown = NotRendered
  /\ CoreInit
  /\ loadedAt = 1
  /\ discarded = FALSE
  /\ AuthIdle
  /\ LiveInit
  /\ HistoryInit
SpecHistory == InitHistory /\ [][HistoryNext]_vars

\* SpecMeta: the dashboard of one analysed video, for any of MetaResults
MetaInit ==
  /\ activeTab = "video"
  /\ stage = "results"
  /\ dragOver = FALSE
  /\ uploadedFile = ClipMp4
  /\ textInput = <<>>
  /\ urlInput = <<>>
  /\ scanStep = ScanMessagesLength
  /\ scanProgress = ScanFull
  /\ uploadProgress = UploadFull
  /\ apiResult \in MetaResults
  /\ runs = << Ended([NewRun(activeTab, uploadedFile, textInput, urlInput) EXCEPT
                        !.health = "up", !.probe = Response(200),
                        !.progress = UploadFull,
                        !.step = ScanMessagesLength, !.resp = "ok"], "succeeded") >>
  /\ shown = NotRendered
  /\ CoreInit
  /\ loadedAt = 1
  /\ discarded = FALSE
  /\ SideInit
SpecMeta == MetaInit /\ [][NextDash]_vars

\* SpecFlags: the dashboard of any tab, for any of FlaggedResults
FlagsInit ==
  /\ activeTab \in Tabs
  /\ stage = "results"
  /\ dragOver = FALSE
  /\ uploadedFile = NoFile
  /\ textInput = <<>>
  /\ urlInput = <<>>
  /\ scanStep = ScanMessagesLength
  /\ scanProgress = ScanFull
  /\ uploadProgress = UploadFull
  /\ apiResult \in FlaggedResults
  /\ runs = << Ended([NewRun(activeTab, uploadedFile, textInput, urlInput) EXCEPT
                        !.health = "up", !.probe = Response(200),
                        !.progress = UploadFull,
                        !.step = ScanMessagesLength, !.resp = "ok"], "succeeded") >>
  /\ shown = NotRendered
  /\ CoreInit
  /\ loadedAt = 1
  /\ discarded = FALSE
  /\ SideInit
SpecFlags == FlagsInit /\ [][NextDash]_vars

\* SpecCore: the analysis service receiving requests
SpecCore == Init /\ [][CoreNext]_vars

(***************************************************************************)
(* Properties of the dashboard (SpecDash).                                 *)
(***************************************************************************)
Rendered == shown # NotRendered /\ ~shown.threw

\* C1: for every API result and tab, the risk tier the dashboard displays is
\* the tier of the score it displays (>= 75 low, 45..74 medium, < 45 high),
\* also when only one of score / risk_level comes from the API.
C1_RiskMatchesScore ==
  Rendered => shown.risk = Str(TierOf(shown.score.n))

\* C2: when the API result carries no numeric score (null or absent), the
\* dashboard shows no numeric score and no authentic / low-risk verdict.
NoNumericScore(api) == api # Null /\ ~IsNum(api.score)
AuthenticVerdicts == {"Authentic", "Likely Authentic", "Human-Written"}
C2_UnknownStaysUnknown ==
  (Rendered /\ NoNumericScore(apiResult)) =>
    /\ ~IsNum(shown.score)
    /\ shown.risk # Str("low")
    /\ shown.status \notin AuthenticVerdicts

(***************************************************************************)
(* Properties of the analyze page.                                         *)
(***************************************************************************)
Posting(r) == runs[r].pc = "post"

\* C3: every POST /analyze request the client builds carries exactly one of
\* the file field and the text query field.
C3_ExactlyOneField ==
  \A r \in RunIds : Posting(r) =>
    (HasField(runs[r].form, "video") /\ ~HasField(runs[r].form, "query"))
    \/ (~HasField(runs[r].form, "video") /\ HasField(runs[r].form, "query"))

\* C4: POST /analyze is sent only by a run whose health check returned true;
\* a run whose health check returned false sets the stage to idle and starts
\* neither the upload-progress interval nor startRealAnalysis / analyzeContent.
HealthGates ==
  \A r \in RunIds :
    /\ runs[r].pc \in {"upload", "scan", "timeout", "post", "succeeded", "failed"}
         => runs[r].health = "up"
    /\ runs[r].health = "down" =>
         /\ runs[r].pc = "aborted"
         /\ runs[r].progress = 0 /\ runs[r].step = 0 /\ ~runs[r].ticking
         /\ runs[r].form = <<>> /\ runs[r].resp = "none"
HealthDownIdles ==
  \A r \in RunIds :
    (runs[r].health = "pending" /\ runs'[r].health = "down") => stage' = "idle"
C4_ProbeShortCircuits == []HealthGates /\ [][HealthDownIdles]_vars
\* one run was stopped by the probe while another one sent its request
C4_Witness ==
  \E r, q \in RunIds : runs[r].health = "down" /\ runs[q].pc = "post"

\* C5: when POST /analyze rejects, answers with a status that is not OK or
\* with a body that is not JSON, the run ends failed, the stage is idle, the
\* stage results is not entered and apiResult is not written by that run.
FailedRequestIdles ==
  \A r \in RunIds :
    (Posting(r) /\ runs'[r].resp \in {"rejected", "not_ok", "bad_json"}) =>
      /\ runs'[r].pc = "failed"
      /\ stage' = "idle"
      /\ apiResult' = apiResult
ResultOnlyFromOk ==
  apiResult' # apiResult =>
    \/ apiResult' = Null
    \/ \E r \in RunIds : Posting(r) /\ runs'[r].pc = "succeeded" /\ runs'[r].resp = "ok"
C5_FailureYieldsNoReport == [][FailedRequestIdles /\ ResultOnlyFromOk]_vars
\* a request was answered with a status that is not OK and the page is idle
C5_Witness ==
  \E r \in RunIds : runs[r].pc = "failed" /\ runs[r].resp = "not_ok" /\ stage = "idle"

\* C6: no analysis request is issued for a file above the 500MB limit.
C6_NoOversizedRequest ==
  \A r \in RunIds : Posting(r) =>
    \A i \in 1..Len(runs[r].form) : runs[r].form[i].file.sizeMB <= MaxUploadMB

\* the segment-level trace an API result carries, empty when it carries none
TraceOf(api) ==
  IF api # Null /\ api.drift_data # Undef THEN api.drift_data.items ELSE << >>

\* C11: the drift timeline the dashboard charts is the trace returned with the
\* analysis result, and it is empty (omitted) when the result has no trace.
C11_NoSyntheticDrift ==
  Rendered => shown.driftData = TraceOf(apiResult)

\* C12: for every API result, also one whose risk_level is unknown or any
\* other value outside low / medium / high, the riskConfig looked up for the
\* displayed risk is defined and rendering does not fail.
C12_RiskConfigDefined ==
  shown # NotRendered => (shown.riskLabel # Undef /\ ~shown.threw)

\* the parts of the displayed report that C13 names, as built from props p by
\* a dashboard module that was loaded at time at
ReportAt(p, at) ==
  [ score |-> ResultScore(p.tab, p.apiResult),
    risk |-> ResultRisk(p.tab, p.apiResult),
    status |-> BuildStatus(p.tab, p.apiResult),
    confidence |-> ResultConfidence(p.tab, p.apiResult),
    fingerprint |-> BuildFingerprint(p.tab, p.apiResult, at),
    anomalies |-> BuildAnomalies(p.tab, p.apiResult),
    insights |-> BuildInsights(p.tab, p.apiResult),
    driftData |-> ResultDriftData(p.tab, p.apiResult) ]

\* C13: for a fixed API result, tab, file name and text, the report that is
\* displayed is the report any other build from the same props gives, whenever
\* the dashboard module of that build was loaded.
C13_ReportDeterministic ==
  Rendered => \A at \in LoadTimes : ReportAt(Props, at) = ReportAt(Props, loadedAt)

\* C14: reset leaves apiResult null, no staged file, empty text and URL inputs
\* and stage idle; from then until analyzeFile starts a run, the stage is not
\* results and apiResult stays null, so no report of an earlier analysis is
\* shown.
ResetClears ==
  (discarded' /\ ~discarded) =>
    /\ stage' = "idle" /\ apiResult' = Null
    /\ uploadedFile' = NoFile /\ textInput' = << >> /\ urlInput' = << >>
NothingShownAfterReset == discarded => (stage # "results" /\ apiResult = Null)
C14_ReportDiscarded == []NothingShownAfterReset /\ [][ResetClears]_vars

\* C15: checkBackendHealth returns true exactly when GET /health answered
\* with a status in 200-299, returns false for any other status and for a
\* rejected fetch, and never throws; analyzeFile goes on with the value it
\* returned.
OkAnswer(probe) == probe # Rejected /\ probe.status \in 200..299
C15_HealthIsOkAnswer ==
  /\ \A probe \in Probes : checkBackendHealth(probe) = Returned(OkAnswer(probe))
  /\ \A r \in RunIds :
       /\ runs[r].health = "up" => OkAnswer(runs[r].probe)
       /\ runs[r].health = "down" => ~OkAnswer(runs[r].probe)
       /\ runs[r].health = "pending" => runs[r].pc = "health"
C15_Witness ==
  \E r, q \in RunIds :
    /\ runs[r].health = "down" /\ runs[r].probe = Rejected
    /\ runs[q].health = "up" /\ runs[q].probe = Response(200)

\* C16: a file is staged only if its modality is the kind of the active tab,
\* and a click on Analyze that submits a file submits one whose modality is
\* the kind selected at that click.
StagedMatchesKind == HasFile(uploadedFile) => uploadedFile.modality = activeTab
SubmittedMatchesKind ==
  (Len(runs') > Len(runs) /\ HasFile(uploadedFile)) => uploadedFile.modality = activeTab
C16_KindMatchesContent == []StagedMatchesKind /\ [][SubmittedMatchesKind]_vars

\* the value at a path of optional fields, undefined when a step is missing
At2(api, f, g) == Opt(Opt(api, f), g)
At3(api, f, g, h) == Opt(At2(api, f, g), h)

\* the static rule of a fingerprint label: GPS Location is suspicious when
\* tags.gps_location carries no value (missing, null or empty), Encoder
\* always, Total Bitrate when 0 < total_bitrate_kbps < 2000 and the video
\* width is at least 1920, any other label never
StaticRule(api, label) ==
  LET gps == At3(api, "metadata", "tags", "gps_location")
      kbps == At3(api, "metadata", "file_info", "total_bitrate_kbps")
      width == At3(api, "metadata", "video", "width")
  IN  CASE label = "GPS Location" -> gps \in {Undef, Null, Str("")}
        [] label = "Encoder" -> TRUE
        [] label = "Total Bitrate" ->
             /\ IsNum(kbps) /\ kbps.n > 0 /\ kbps.n < 2000
             /\ IsNum(width) /\ width.n >= 1920
        [] OTHER -> FALSE

Flagged(label) ==
  \E i \in DOMAIN shown.fingerprint :
    shown.fingerprint[i].label = label /\ shown.fingerprint[i].suspicious

\* C17: in the fingerprint built from real data there is exactly one GPS
\* Location entry, and every entry is flagged suspicious exactly when the
\* static rule of its label says so for the metadata of the API result.
C17_FlagsByStaticRules ==
  (Rendered /\ shown.hasRealData) =>
    LET fp == shown.fingerprint
    IN  /\ Cardinality({i \in DOMAIN fp : fp[i].label = "GPS Location"}) = 1
        /\ \A i \in DOMAIN fp : fp[i].suspicious <=> StaticRule(apiResult, fp[i].label)
\* a rendered fingerprint with GPS Location, Encoder and Total Bitrate flagged
C17_Witness ==
  /\ Rendered /\ shown.hasRealData
  /\ Flagged("GPS Location") /\ Flagged("Encoder") /\ Flagged("Total Bitrate")

\* the result of a video that the detector labelled fake, rendered
FakeVideoShown ==
  /\ Rendered
  /\ apiResult # Null
  /\ JsTruthy(apiResult.video_analysis)
  /\ apiResult.video_analysis.label = Str("fake")
LacksGps == At3(apiResult, "metadata", "tags", "gps_location") \in {Undef, Null, Str("")}
\* some entry of the anomalies list mentions the word
Mentions(word) == \E i \in DOMAIN shown.anomalies : Includes(shown.anomalies[i], word)
\* risk_assessment.flags carries a flag that mentions the word
FlagMentions(word) ==
  /\ JsTruthy(At2(apiResult, "risk_assessment", "flags"))
  /\ \E i \in DOMAIN apiResult.risk_assessment.flags.items :
       Includes(FlagText(apiResult.risk_assessment.flags.items[i]), word)

\* C18 as stated: when the video label is fake and the metadata lacks GPS, the
\* anomalies contain an entry referencing the deepfake label and an entry
\* referencing the missing GPS.
C18_DeepfakeAndGpsAnomalies ==
  (FakeVideoShown /\ LacksGps) => (Mentions("Deepfake") /\ Mentions("GPS"))

\* C18 amended: when the video label is fake the anomalies contain an entry
\* referencing the deepfake label; they contain an entry referencing GPS
\* exactly when a flag of risk_assessment.flags references it; metadata that
\* lacks GPS is shown as the flagged GPS Location entry of the fingerprint.
C18_AnomaliesFromFlagsAndLabel ==
  FakeVideoShown =>
    /\ Mentions("Deepfake")
    /\ Mentions("GPS") <=> FlagMentions("GPS")
    /\ LacksGps => Flagged("GPS Location")
\* a fake video without GPS whose flags carry the missing GPS, and none
\* mentions the deepfake: both entries are in the anomalies
C18_Witness ==
  /\ FakeVideoShown /\ LacksGps
  /\ FlagMentions("GPS") /\ ~FlagMentions("Deepfake")
  /\ Mentions("Deepfake") /\ Mentions("GPS")

\* the tier a colour, an icon and a score-based status text stand for
ColorTier(color) ==
  CASE color = "#00ff9d" -> "low" [] color = "#ffd700" -> "medium" [] color = "#ff4444" -> "high"
IconTier(icon) ==
  CASE icon = "CheckCircle" -> "low" [] icon = "AlertTriangle" -> "medium"
    [] icon = "XCircle" -> "high"
StatusTier(label) ==
  CASE label = "Likely Authentic" -> "low" [] label = "Suspicious" -> "medium"
    [] label = "AI-Generated / Manipulated" -> "high"
\* an API result that carries a score and nothing else
ScoreOnly(score) ==
  [ t |-> "object", score |-> Num(score), risk_level |-> Undef, video_analysis |-> Undef,
    text_analysis |-> Undef, metadata |-> Undef, risk_assessment |-> Undef,
    drift_data |-> Undef, related_articles |-> Undef, models_used |-> Undef ]
\* the dashboard shows the status text of the score-based fallback
ScoreBasedStatus ==
  /\ Rendered
  /\ shown.status \in {"Likely Authentic", "Suspicious", "AI-Generated / Manipulated"}
  /\ apiResult.video_analysis = Undef /\ apiResult.text_analysis = Undef

\* C19: every place that tiers a score uses the thresholds of the risk tiers
\* (>= 75, 45..74, < 45): for every score 0..100 the score colour and status
\* icon of the dashboard, its score-based status text, the colour of the
\* history list and the colour of Recent analyses stand for the tier of the
\* score, every record of mockHistory stores the risk of its score, and a
\* rendered dashboard never shows a score-based status of another tier than
\* its score colour.
C19_OneTiering ==
  /\ \A score \in 0..100 :
       /\ ColorTier(ScoreColor(score)) = TierOf(score)
       /\ IconTier(StatusIcon(score)) = TierOf(score)
       /\ StatusTier(BuildStatus("video", ScoreOnly(score))) = TierOf(score)
       /\ ColorTier(getScoreColor(score)) = TierOf(score)
       /\ ColorTier(RecentColor(score)) = TierOf(score)
  /\ \A i \in DOMAIN MockHistory : MockHistory[i].risk = TierOf(MockHistory[i].score)
  /\ ScoreBasedStatus => StatusTier(shown.status) = ColorTier(shown.scoreColor)

\* the stage transitions of one analysis: start, failed health check, upload
\* complete, request succeeded, request failed, reset
StageTransitions ==
  { << "idle", "uploading" >>, << "uploading", "idle" >>, << "uploading", "scanning" >>,
    << "scanning", "results" >>, << "scanning", "idle" >>, << "results", "idle" >> }

\* C20: every step that changes the stage changes it along one of
\* StageTransitions.
C20_StageTransitions == [][stage' # stage => << stage, stage' >> \in StageTransitions]_vars

Uploading(r) == runs[r].pc = "upload"

\* C21: at most one run of analyzeFile is in progress (health check awaited,
\* uploading or scanning), so at most one upload-progress interval is ticking
\* and at most one POST /analyze is outstanding.
C21_OneRunAtATime ==
  /\ Cardinality({r \in RunIds : InProgress(r)}) <= 1
  /\ Cardinality({r \in RunIds : Uploading(r)}) <= 1
  /\ Cardinality({r \in RunIds : Posting(r)}) <= 1

\* the run has returned and none of its intervals is alive
RunOver(r) == r \in RunIds /\ ~InProgress(r) /\ ~runs[r].ticking
\* the step in which a run returns leaves the stage results or idle
EndsInResultsOrIdle ==
  \A r \in RunIds : (InProgress(r) /\ ~InProgress(r)') => stage' \in {"results", "idle"}

SubmittedProps(r) ==
  [ tab |-> runs[r].tab,
    fileName |-> IF HasFile(runs[r].file) THEN Str(runs[r].file.name) ELSE Undef,
    textSnippet |-> runs[r].text ]

\* C23: in the step that enters the results stage with the answer to the
\* request of run r, the tab, file name and text snippet handed to
\* ResultsDashboard are those of the content run r submitted.
ResultsOfSubmitted ==
  \A r \in RunIds :
    (Posting(r) /\ runs'[r].pc = "succeeded") =>
      /\ Props'.tab = SubmittedProps(r).tab
      /\ Props'.fileName = SubmittedProps(r).fileName
      /\ Props'.textSnippet = SubmittedProps(r).textSnippet
C23_ResultsOfSubmitted == [][ResultsOfSubmitted]_vars

\* C24: once the mount effect has run, the user in memory is the user of the
\* last login or signup (null after a logout, also across remounts), the key
\* truth_x_user holds that same object and is absent when it is null, and
\* isAuthenticated holds iff the user is not null.
C24_UserMatchesStorage ==
  effectRan =>
    /\ user = lastAuth
    /\ lastAuth = Null => StorageKey \notin DOMAIN localStorage
    /\ lastAuth # Null =>
         (StorageKey \in DOMAIN localStorage /\ JsonParse(localStorage[StorageKey]) = lastAuth)
    /\ isAuthenticated <=> user # Null
\* a user whose email needs escaping is restored from storage by a remount
C24_Witness ==
  /\ effectRan /\ user # Null /\ user.email = << "\"", "\\" >>
  /\ pathname = "/analyze"

\* the label of an ML result of the API result, undefined when there is none
LabelOf(analysis) == At2(apiResult, analysis, "label")
HasRealScore == Opt(apiResult, "score") \notin {Undef, Null}
\* the status text by precedence: video label, text label, score, mock
StatusByPrecedence ==
  CASE LabelOf("video_analysis") = Str("fake") -> "Deepfake Detected"
    [] LabelOf("video_analysis") = Str("real") -> "Likely Authentic"
    [] LabelOf("video_analysis") \notin {Str("fake"), Str("real")}
         /\ LabelOf("text_analysis") = Str("ai-generated") -> "AI-Generated Text"
    [] LabelOf("video_analysis") \notin {Str("fake"), Str("real")}
         /\ LabelOf("text_analysis") = Str("human-written") -> "Human-Written"
    [] OTHER ->
         IF HasRealScore
         THEN IF apiResult.score.n >= 70 THEN "Likely Authentic"
              ELSE IF apiResult.score.n >= 40 THEN "Suspicious"
              ELSE "AI-Generated / Manipulated"
         ELSE MockResults(activeTab).status

\* C25: the status text is decided by the video label fake / real, otherwise
\* by the text label ai-generated / human-written, otherwise by the score
\* (>= 70, >= 40, below), and is the mock status only without a real score.
C25_LabelsFirst == Rendered => shown.status = StatusByPrecedence
\* a text label decides although a score is there and the video label is not
\* definitive
C25_Witness ==
  /\ Rendered /\ HasRealScore /\ apiResult.score.n >= 70
  /\ LabelOf("video_analysis") = Str("uncertain")
  /\ LabelOf("text_analysis") = Str("ai-generated")
  /\ shown.status = "AI-Generated Text"

\* the risk flags of the API result, none when there are none
FlagsGiven ==
  IF JsTruthy(At2(apiResult, "risk_assessment", "flags"))
  THEN apiResult.risk_assessment.flags.items ELSE << >>
\* the entries API-derived anomalies consist of: one per flag in the given
\* order, one for the deepfake label, one for AI-generated text
DeepfakeDue ==
  /\ LabelOf("video_analysis") = Str("fake")
  /\ \A i \in DOMAIN FlagsGiven : ~Includes(FlagText(FlagsGiven[i]), "Deepfake")
AiTextDue == LabelOf("text_analysis") = Str("ai-generated")
Derived(list) ==
  LET n == Len(FlagsGiven)
      d == IF DeepfakeDue THEN 1 ELSE 0
      a == IF AiTextDue THEN 1 ELSE 0
  IN  /\ Len(list) = n + d + a
      /\ \A i \in 1..n : list[i] = FlagText(FlagsGiven[i])
      /\ DeepfakeDue => list[n + 1][1] = "Deepfake"
      /\ AiTextDue => list[n + d + 1][1] = "AI-Generated"
NoDerivedEntry == FlagsGiven = << >> /\ ~DeepfakeDue /\ ~AiTextDue

\* C26: with any real data, and whenever some entry is derived, the anomalies
\* are the flags in their order, then the deepfake entry iff the video label
\* is fake and no flag mentions Deepfake, then the AI-text entry; the mock
\* anomalies are shown only without real data and without a derived entry.
C26_AnomaliesDerived ==
  Rendered =>
    IF shown.hasRealData \/ ~NoDerivedEntry
    THEN Derived(shown.anomalies)
    ELSE shown.anomalies = MockAnomalies(activeTab)
\* real data and nothing to report: the list is empty, not the mock list
C26_Witness ==
  /\ Rendered /\ shown.hasRealData /\ NoDerivedEntry
  /\ shown.anomalies = << >>

StatusRank(state) ==
  CASE state = "scanning" -> 1 [] state = "suspicious" -> 2 [] state = "deepfake" -> 3
    [] OTHER -> 0
\* callActive stays true: the step belongs to one session
SameSession == callActive /\ callActive'
StatusForward ==
  SameSession => StatusRank(status) >= 1 /\ StatusRank(status') >= StatusRank(status)
SameEntry(alert, entry) ==
  /\ alert.type = entry.type
  /\ alert.message = entry.message
  /\ alert.severity = entry.severity
\* the list holds the first entries of the sequence, the newest at the head
AlertsInOrder ==
  /\ Len(alerts) <= Len(mockAlertSequence)
  /\ Len(alerts) <= AlertLimit
  /\ \A k \in 1..Len(alerts) :
       /\ SameEntry(alerts[k], mockAlertSequence[Len(alerts) - k + 1])
       /\ k < Len(alerts) => alerts[k].id > alerts[k + 1].id
\* the list changes by a new head with a larger id, or is emptied by startCall
AlertsAppended ==
  alerts' # alerts =>
    \/ ~callActive /\ callActive' /\ alerts' = << >>
    \/ /\ callActive /\ callActive'
       /\ alerts' # << >>
       /\ Tail(alerts') = alerts
       /\ \A k \in 1..Len(alerts) : Head(alerts').id > alerts[k].id
ModalAfterSixth ==
  ModalVisible => callActive /\ Len(alerts) = Len(mockAlertSequence)
StaysDismissed ==
  /\ alertDismissed => ~ModalVisible'
  /\ alertDismissed /\ ~alertDismissed' => ~callActive /\ callActive'
\* C27: during one session the status only moves forward scanning ->
\* suspicious -> deepfake; the alerts arrive in the order of the sequence,
\* newest first, at most 20, with increasing ids; the modal is visible only
\* after the sixth alert of the session and, once dismissed, stays hidden
\* until the next startCall
C27_SessionMovesForward ==
  /\ [](AlertsInOrder /\ ModalAfterSixth)
  /\ [][StatusForward /\ AlertsAppended /\ StaysDismissed]_vars
\* a later session has delivered its six alerts and its modal was dismissed
C27_Witness ==
  /\ sessions = 2
  /\ callActive
  /\ showAlert
  /\ alertDismissed
  /\ Len(alerts) = 6
  /\ status = "deepfake"

IdleWhenInactive == ~callActive => status = "idle" /\ ~showAlert /\ ~ModalVisible
TimersCancelled == ~callActive /\ ~EffectDue => timeouts = {}
QuietUntilStart == ~callActive /\ ~callActive' => alerts' = alerts /\ status' = status
EndCallStep == callActive /\ ~callActive' => status' = "idle" /\ ~showAlert' /\ alerts' = alerts
\* C28: after endCall the session is inactive, the status is idle and the
\* modal is hidden; once the effect has run no timer is pending; until the
\* next startCall no alert is appended and the status does not change; an
\* inactive session always has the status idle
C28_EndCallStops ==
  /\ [](IdleWhenInactive /\ TimersCancelled)
  /\ [][QuietUntilStart /\ EndCallStep]_vars
\* a session was ended while timers were pending, and the effect has run
C28_Witness ==
  /\ sessions >= 1
  /\ ~callActive
  /\ ~EffectDue
  /\ Len(alerts) \in 1..5
  /\ status = "idle"

SameLetter(a, b) ==
  \/ a = b
  \/ a \in DOMAIN UpperCase /\ UpperCase[a] = b
  \/ b \in DOMAIN UpperCase /\ UpperCase[b] = a
\* sub occurs in text, letters compared without regard to case
OccursIn(sub, text) ==
  \E k \in 0..(Len(text) - Len(sub)) : \A j \in 1..Len(sub) : SameLetter(text[k + j], sub[j])
SearchMatches(item) ==
  \/ OccursIn(search, item.name)
  \/ OccursIn(search, item.status)
  \/ OccursIn(search, item.summary)
FilterMatches(item) ==
  CASE filterStatus = "all" -> TRUE
    [] filterStatus = "authentic" -> item.score >= 75
    [] filterStatus = "ai-generated" -> OccursIn(Ai, item.status)
    [] filterStatus = "tampered" -> OccursIn(Tamper, item.status)
    [] filterStatus = "suspicious" -> OccursIn(Suspicious, item.status)
Matching ==
  {MockHistory[k] : k \in {n \in DOMAIN MockHistory :
                             SearchMatches(MockHistory[n]) /\ FilterMatches(MockHistory[n])}}
DigitOf(c) == CHOOSE d \in 0..9 : ToString(d) = c
\* the day of a date yyyy-mm-dd as a number
DayNumber(date) ==
  (DigitOf(date[1]) * 1000 + DigitOf(date[2]) * 100 + DigitOf(date[3]) * 10 + DigitOf(date[4])) * 10000
  + (DigitOf(date[6]) * 10 + DigitOf(date[7])) * 100
  + DigitOf(date[9]) * 10 + DigitOf(date[10])
RiskFirst == << "high", "medium", "low" >>
RiskPlace(risk) == CHOOSE k \in DOMAIN RiskFirst : RiskFirst[k] = risk
InOrder(a, b) ==
  CASE sortBy = "score" -> a.score >= b.score
    [] sortBy = "risk" -> RiskPlace(a.risk) <= RiskPlace(b.risk)
    [] sortBy = "date" -> DayNumber(a.date) >= DayNumber(b.date)
\* C29: the list shown holds exactly the records of mockHistory that match
\* the search (a substring of name, status or summary, without regard to
\* case) and the filter (authentic: score >= 75), each once, ordered by the
\* sort key: score descending, risk high, medium, low, or date newest first
C29_HistoryList ==
  LET list == filtered
  IN  /\ {list[k] : k \in DOMAIN list} = Matching
      /\ Len(list) = Cardinality(Matching)
      /\ \A i, j \in DOMAIN list : i < j => InOrder(list[i], list[j])
\* a search with a capital matches lower-case text among the authentic records
C29_Witness ==
  /\ search = << "t", "I" >>
  /\ filterStatus = "authentic"
  /\ sortBy = "score"
  /\ Len(filtered) >= 2
  /\ \E k \in DOMAIN filtered : ~matchSearch_CaseSensitive(filtered[k])

Completed(q) == requests[q].pc = "done"
Accepted(q) == requests[q].response \in {"", "report", "dropped"}
Missing(res) == res.status \in {"failed", "timed_out"}

CleanupOnce ==
  \A q \in RequestIds :
    /\ requests[q].deletes <= 1
    /\ (Completed(q) /\ Accepted(q)) => requests[q].deletes = 1
CleanupAfterSettle ==
  \A q \in RequestIds :
    requests'[q].deletes # requests[q].deletes =>
      /\ AllSettled(q)
      /\ requests[q].deletes = 0
      /\ requests'[q].deletes = 1
PartialFailure(q) ==
  /\ \E d \in DOMAIN requests[q].results : requests[q].results[d].status = "ok"
  /\ \E d \in DOMAIN requests[q].results : Missing(requests[q].results[d])
OnlyOk(results) == [d \in OkDetectors(results) |-> results[d]]
ReportRendered(q) ==
  LET report == requests[q].report
      view == Dashboard([tab |-> requests[q].kind, fileName |-> Undef,
                         textSnippet |-> <<>>, apiResult |-> ReportBody(report)])
  IN  /\ ~view.threw
      /\ view.score = report.score
      /\ view.risk = report.risk_level
PartialReport ==
  \A q \in RequestIds :
    (Completed(q) /\ PartialFailure(q)) =>
      /\ requests[q].response = IF requests[q].connected THEN "report" ELSE "dropped"
      /\ requests[q].report.detector_results = requests[q].results
      /\ IsNum(requests[q].report.score)
      /\ requests[q].report.score = aggregate(OnlyOk(requests[q].results)).score
      /\ ReportRendered(q)
FailureIsolated ==
  \A q \in RequestIds : \A d \in DOMAIN requests[q].results :
    /\ Settled(requests[q].results[d]) => requests'[q].results[d] = requests[q].results[d]
    /\ (requests[q].results[d] = Running /\ requests'[q].results[d] = Failed) =>
         \A e \in DOMAIN requests[q].results \ {d} :
           requests'[q].results[e] = requests[q].results[e]
C9_PartialFailureTolerated == []PartialReport /\ [][FailureIsolated]_vars
\* the video adapter timed out, the audio and metadata adapters succeeded, and
\* the report was returned
C9_Witness ==
  \E q \in RequestIds :
    /\ Completed(q) /\ requests[q].response = "report"
    /\ requests[q].results = [d \in Applicable("video") |->
         IF d = "video-deepfake" THEN TimedOut
         ELSE IF d = "audio-voiceclone" THEN Ok("real", 85) ELSE Ok("", 0)]
    /\ requests[q].report.score = Num(100)

\* C10: while two runs overlap, a step of one run changes neither the stage,
\* the result nor the progress counters (no state is shared between runs).
RunStepped(r) == r > Len(runs) \/ runs'[r] # runs[r]
C10_RunsIndependent ==
  [][ \A r \in 1..Len(runs') :
        (RunStepped(r) /\ \E q \in RunIds \ {r} : InProgress(q)) =>
          UNCHANGED << stage, apiResult, uploadProgress, scanStep, scanProgress >> ]_vars

====
